---- MODULE Spec2Model ----
(***************************************************************************)
(* The AttackPaths view of the attack-path viewer: the comprehensive       *)
(* artifact loader (utils/dataLoaders.ts), the technique / finding index   *)
(* build of the load effect, and the drill-down navigation state.          *)
(*                                                                         *)
(* Text is modelled character by character on TLC strings (Len, SubSeq,    *)
(* \o).  Module text is ASCII only, so the one non-ASCII character the     *)
(* source matches on, the en dash U+2013 of the name regex, is written     *)
(* EnDash, and the three characters U+00E2 U+20AC U+201C that the loader   *)
(* puts between id and name are written Mojibake.                          *)
(***************************************************************************)
EXTENDS Integers, Sequences, FiniteSets, TLC

\* JavaScript null / undefined of an object-valued slot.
Null == [null |-> TRUE]

\* A failed String.match / a null string result (every real match is non-empty).
NoMatch == ""

----------------------------------------------------------------------------
(* Strings *)

Ch(s, i) == SubSeq(s, i, i)

Digits == {"0", "1", "2", "3", "4", "5", "6", "7", "8", "9"}

IsDigit(c) == c \in Digits

EnDash == "~"

Mojibake == "^$%"

UpperCase == "ABCDEFGHIJKLMNOPQRSTUVWXYZ"

LowerCase == "abcdefghijklmnopqrstuvwxyz"

LowerCh(c) ==
  IF \E i \in 1..Len(UpperCase) : Ch(UpperCase, i) = c
  THEN Ch(LowerCase, CHOOSE i \in 1..Len(UpperCase) : Ch(UpperCase, i) = c)
  ELSE c

RECURSIVE toLowerCase(_)
toLowerCase(s) ==
  IF s = "" THEN "" ELSE LowerCh(Ch(s, 1)) \o toLowerCase(Tail(s))

\* String.replace(/\./g, '-')
RECURSIVE replaceDots(_)
replaceDots(s) ==
  IF s = "" THEN ""
  ELSE (IF Ch(s, 1) = "." THEN "-" ELSE Ch(s, 1)) \o replaceDots(Tail(s))

\* String.trim() (the only white space of the model is the blank)
RECURSIVE trim(_)
trim(s) ==
  IF s = "" THEN ""
  ELSE IF Ch(s, 1) = " " THEN trim(Tail(s))
  ELSE IF Ch(s, Len(s)) = " " THEN trim(SubSeq(s, 1, Len(s) - 1))
  ELSE s

\* String.split(';')
RECURSIVE splitFrom(_, _, _)
splitFrom(s, start, i) ==
  IF i > Len(s) THEN << SubSeq(s, start, Len(s)) >>
  ELSE IF Ch(s, i) = ";"
       THEN << SubSeq(s, start, i - 1) >> \o splitFrom(s, i + 1, i + 1)
       ELSE splitFrom(s, start, i + 1)

split(s) == splitFrom(s, 1, 1)

\* (str || '').split(';').map(s => s.trim()).filter(s => s)
techniqueStrings(str) ==
  LET parts == split(str)
      trimmed == [k \in 1..Len(parts) |-> trim(parts[k])]
  IN SelectSeq(trimmed, LAMBDA p : p # "")

\* Length of the match of /T\d{4}(\.\d{3})?/ starting at position i, 0 if none.
IdLenAt(s, i) ==
  IF /\ i + 4 <= Len(s)
     /\ Ch(s, i) = "T"
     /\ \A k \in 1..4 : IsDigit(Ch(s, i + k))
  THEN IF /\ i + 8 <= Len(s)
          /\ Ch(s, i + 5) = "."
          /\ \A k \in 6..8 : IsDigit(Ch(s, i + k))
       THEN 9
       ELSE 5
  ELSE 0

\* str.match(/T\d{4}(\.\d{3})?/): the leftmost match, or null.
extractTechniqueId(str) ==
  IF str = "" THEN NoMatch
  ELSE LET hits == {i \in 1..Len(str) : IdLenAt(str, i) > 0}
       IN IF hits = {} THEN NoMatch
          ELSE LET i == CHOOSE h \in hits : \A g \in hits : h <= g
               IN SubSeq(str, i, i + IdLenAt(str, i) - 1)

RECURSIVE skipBlanks(_, _)
skipBlanks(s, i) ==
  IF i <= Len(s) /\ Ch(s, i) = " " THEN skipBlanks(s, i + 1) ELSE i

\* Group 2 of /T\d{4}(\.\d{3})?\s*[<en dash>-]\s*(.+)/ with the id taken as the
\* idLen characters at i, or NoMatch: blanks, one dash, blanks, then at least one
\* character (the last blank is given back when nothing else is left).
nameAfterId(s, i, idLen) ==
  LET d == skipBlanks(s, i + idLen)
  IN IF d <= Len(s) /\ Ch(s, d) \in {"-", EnDash}
     THEN LET r == skipBlanks(s, d + 1)
          IN IF r <= Len(s) THEN SubSeq(s, r, Len(s))
             ELSE IF r > d + 1 THEN Ch(s, Len(s))
             ELSE NoMatch
     ELSE NoMatch

\* Group 2 of the name regex matched at position i: the optional sub-technique
\* part is tried first and given up on failure.
nameMatchAt(s, i) ==
  LET n == IdLenAt(s, i)
  IN IF n = 0 THEN NoMatch
     ELSE IF nameAfterId(s, i, n) # NoMatch THEN nameAfterId(s, i, n)
     ELSE IF n > 5 THEN nameAfterId(s, i, 5)
     ELSE NoMatch

\* techniqueStr.match(/T\d{4}(\.\d{3})?\s*[<en dash>-]\s*(.+)/)[2] of the leftmost
\* match, or NoMatch.
nameMatch(s) ==
  LET hits == {i \in 1..Len(s) : nameMatchAt(s, i) # NoMatch}
  IN IF hits = {} THEN NoMatch
     ELSE nameMatchAt(s, CHOOSE h \in hits : \A g \in hits : h <= g)

\* `attack-pattern--${techniqueId.toLowerCase().replace(/\./g, '-')}`
derivedTechniqueKey(techniqueId) ==
  "attack-pattern--" \o replaceDots(toLowerCase(techniqueId))

\* nameMatch && nameMatch[2] ? nameMatch[2].trim() : techniqueStr
derivedTechniqueName(techniqueStr) ==
  IF nameMatch(techniqueStr) # NoMatch THEN trim(nameMatch(techniqueStr))
  ELSE techniqueStr

----------------------------------------------------------------------------
(* Maps and folds *)

EmptyMap == << >>

MapHas(m, k) == k \in DOMAIN m

MapSet(m, k, v) == [x \in DOMAIN m \cup {k} |-> IF x = k THEN v ELSE m[x]]

\* forEach with an accumulator: Op is applied to the elements of s in order. The
\* accumulator is bound as a value after each element.
RECURSIVE FoldLeft(_, _, _)
FoldLeft(Op(_, _), acc, s) ==
  IF s = << >> THEN acc
  ELSE CHOOSE result \in {FoldLeft(Op, next, rest) :
                            next \in {Op(acc, Head(s))}, rest \in {Tail(s)}} : TRUE

Has(r, f) == f \in DOMAIN r

\* An optional property: the record with field f when present holds, else none.
OptField(present, rec) == IF present THEN rec ELSE << >>

----------------------------------------------------------------------------
(* utils/dataLoaders.ts *)

\* The twelve stages in the order of tacticMap: <<tactic name, document field>>.
TacticSections ==
  << <<"Initial Access", "initial_access">>,
     <<"Discovery", "discovery">>,
     <<"Execution", "execution">>,
     <<"Persistence", "persistence">>,
     <<"Privilege Escalation", "privilege_escalation">>,
     <<"Defense Evasion", "defense_evasion">>,
     <<"Credential Access", "credential_access">>,
     <<"Lateral Movement", "lateral_movement">>,
     <<"Collection", "collection">>,
     <<"Command and Control", "command_and_control">>,
     <<"Exfiltration", "exfiltration">>,
     <<"Impact", "impact">> >>

SectionFields == {TacticSections[i][2] : i \in 1..Len(TacticSections)}

\* validComprehensive without the check of the last section.
validComprehensiveNoImpact(rawData) ==
  /\ rawData.jsonType \in {"object", "array"}
  /\ Has(rawData.fields, "application_name")
  /\ rawData.fields.application_name # ""
  /\ \A f \in SectionFields \ {"impact"} :
       Has(rawData.fields, f) /\ rawData.fields[f] # Null

\* The structural validation of loadComprehensiveAnalysisData on a parsed value:
\* truthy, typeof 'object', and application_name and the twelve sections all
\* truthy. A parsed value is [jsonType, fields]; an array is an object without
\* these fields.
validComprehensive(rawData) ==
  /\ rawData.jsonType \in {"object", "array"}
  /\ Has(rawData.fields, "application_name")
  /\ rawData.fields.application_name # ""
  /\ \A f \in SectionFields : Has(rawData.fields, f) /\ rawData.fields[f] # Null

\* loadComprehensiveAnalysisData: null when the fetch rejects, the response is
\* not ok, response.json() rejects or the validation fails; else the document.
loadComprehensiveAnalysisData(fetchRejected, file) ==
  IF fetchRejected THEN Null
  ELSE IF file.kind = "missing" THEN Null
  ELSE IF file.kind = "text" THEN Null
  ELSE IF validComprehensive(file.value) THEN file.value.fields
  ELSE Null

\* step.step_id ? `Step ${step.step_id}` : `Step ${idx + 1}`
stepName(step, idx) ==
  IF Has(step, "step_id") /\ step.step_id # 0
  THEN "Step " \o ToString(step.step_id)
  ELSE "Step " \o ToString(idx)

\* The step's technique text: id, separator and name, else whichever is there.
techniqueDisplay(vector) ==
  IF Has(vector, "technique_stix_id") /\ vector.technique_stix_id # ""
       /\ vector.technique_name # ""
  THEN vector.technique_stix_id \o " " \o Mojibake \o " " \o vector.technique_name
  ELSE IF Has(vector, "technique_stix_id") /\ vector.technique_stix_id # ""
       THEN vector.technique_stix_id
       ELSE vector.technique_name

attackFlowSteps(tacticName, vector) ==
  LET steps == IF Has(vector, "method_steps") THEN vector.method_steps ELSE << >>
  IN [idx \in 1..Len(steps) |->
        [step_name |-> stepName(steps[idx], idx),
         step_description |->
           IF Has(steps[idx], "description") THEN steps[idx].description ELSE "",
         step_mitre_tactic |-> tacticName,
         step_mitre_technique |-> techniqueDisplay(vector)]]

\* One achievable vector of a stage as a Finding.
vectorToFinding(tacticName, vector) ==
  LET technique ==
        [name |-> vector.technique_name, tactic |-> tacticName]
          @@ OptField(Has(vector, "technique_stix_id"),
                      [stix_id |-> vector.technique_stix_id])
      hypothesis ==
        [starting_tactic |-> tacticName,
         objective_tactic |-> tacticName,
         attack_flow_hypothesis |-> attackFlowSteps(tacticName, vector)]
      adversarialMethod ==
        [tactic_name |-> tacticName,
         selected_techniques |-> << technique >>]
          @@ OptField(Has(vector, "can_achieve"),
                      [can_achieve |-> vector.can_achieve])
          @@ OptField(Has(vector, "method_steps"),
                      [method_steps |-> vector.method_steps])
  IN [scenario_name |-> vector.technique_name,
      hypothesis |-> hypothesis,
      adversarial_methods |-> << adversarialMethod >>,
      method |-> adversarialMethod]

\* vectorAchievable that takes a vector without the flag too.
vectorNotUnachievable(vector) ==
  ~(Has(vector, "can_achieve") /\ vector.can_achieve = FALSE)

\* vector.can_achieve === true
vectorAchievable(vector) == Has(vector, "can_achieve") /\ vector.can_achieve = TRUE

\* The findings of one stage: its achievable vectors, in order.
sectionFindings(comprehensiveData, section) ==
  LET explorerOutput == comprehensiveData[section[2]]
  IN IF ~Has(explorerOutput, "vectors") THEN << >>
     ELSE LET achievable == SelectSeq(explorerOutput.vectors, vectorAchievable)
          IN [k \in 1..Len(achievable) |-> vectorToFinding(section[1], achievable[k])]

transformComprehensiveAnalysisToAttackPaths(comprehensiveData) ==
  [attack_paths |->
     FoldLeft(LAMBDA findings, section :
                findings \o sectionFindings(comprehensiveData, section),
              << >>, TacticSections),
   application_name |-> comprehensiveData.application_name]

\* loadAttackPathsData: [threw |-> TRUE, message] when the comprehensive document
\* is not there, else [threw |-> FALSE, data].
loadAttackPathsData(fetchRejected, file, appName) ==
  LET comprehensiveData == loadComprehensiveAnalysisData(fetchRejected, file)
  IN IF comprehensiveData = Null
     THEN [threw |-> TRUE,
           message |-> "Comprehensive analysis data not found for " \o appName
                         \o ". Expected file: data/comprehensive/" \o appName
                         \o "_comprehensive_analysis.json"]
     ELSE [threw |-> FALSE,
           data |-> transformComprehensiveAnalysisToAttackPaths(comprehensiveData)]

----------------------------------------------------------------------------
(* AttackPaths: the index build of the load effect *)

\* technique.stix_id || technique.name
techniqueKeyOf(technique) ==
  IF Has(technique, "stix_id") /\ technique.stix_id # ""
  THEN technique.stix_id
  ELSE technique.name

fullKeyOf(tacticName, techniqueKey) == tacticName \o "::" \o techniqueKey

\* methodAchievable without the check.
methodAlwaysAchievable(method) == TRUE

\* method.can_achieve !== true is what skips a method.
methodAchievable(method) == Has(method, "can_achieve") /\ method.can_achieve = TRUE

\* hasScenario that finds nothing.
hasScenarioNever(findings, attackPath) == FALSE

\* findings.find(f => f.scenario_name === attackPath.scenario_name)
hasScenario(findings, attackPath) ==
  \E k \in 1..Len(findings) : findings[k].scenario_name = attackPath.scenario_name

\* The finding list of fullKey after "add attack path if not already present".
trackFinding(findingsMap, fullKey, attackPath, method) ==
  LET present == IF MapHas(findingsMap, fullKey) THEN findingsMap
                 ELSE MapSet(findingsMap, fullKey, << >>)
      findings == present[fullKey]
  IN IF hasScenario(findings, attackPath) THEN present
     ELSE MapSet(present, fullKey,
                 Append(findings, [method |-> method] @@ attackPath))

\* registerTechnique that keeps the technique registered last.
registerTechniqueLast(tacticMap, techniqueKey, technique) ==
  MapSet(tacticMap, techniqueKey, technique)

\* tacticMap.has(techniqueKey) keeps the technique registered first.
registerTechnique(tacticMap, techniqueKey, technique) ==
  IF MapHas(tacticMap, techniqueKey) THEN tacticMap
  ELSE MapSet(tacticMap, techniqueKey, technique)

indexTechniqueUntracked(maps, tacticName, techniqueKey, technique, attackPath, method) ==
  [techniquesMap |->
     MapSet(maps.techniquesMap, tacticName,
            registerTechnique(maps.techniquesMap[tacticName], techniqueKey,
                              technique)),
   findingsMap |->
     IF MapHas(maps.findingsMap, fullKeyOf(tacticName, techniqueKey))
     THEN maps.findingsMap
     ELSE trackFinding(maps.findingsMap, fullKeyOf(tacticName, techniqueKey),
                       attackPath, attackPath.adversarial_methods[1])]

\* One technique of one method: register it and track the finding under it.
\* maps is [techniquesMap, findingsMap].
indexTechnique(maps, tacticName, techniqueKey, technique, attackPath, method) ==
  [techniquesMap |->
     MapSet(maps.techniquesMap, tacticName,
            registerTechnique(maps.techniquesMap[tacticName], techniqueKey,
                              technique)),
   findingsMap |->
     trackFinding(maps.findingsMap, fullKeyOf(tacticName, techniqueKey),
                  attackPath, method)]

\* method.selected_techniques.forEach(...)
indexSelectedTechniques(maps, attackPath, method) ==
  FoldLeft(LAMBDA acc, technique :
             indexTechnique(acc, method.tactic_name, techniqueKeyOf(technique),
                            [tactic |-> method.tactic_name] @@ technique,
                            attackPath, method),
           maps, method.selected_techniques)

\* attackPath.hypothesis?.attack_flow_hypothesis || []
attackFlowOf(finding) ==
  IF Has(finding, "hypothesis") /\ Has(finding.hypothesis, "attack_flow_hypothesis")
  THEN finding.hypothesis.attack_flow_hypothesis
  ELSE << >>

\* One ';'-segment of a matching step. st is [maps, seen]: the maps and the
\* seenTechniqueKeys of this method.
indexTechniqueString(st, attackPath, method, step, techniqueStr) ==
  LET techniqueId == extractTechniqueId(techniqueStr)
      techniqueKey == derivedTechniqueKey(techniqueId)
      technique ==
        [stix_id |-> techniqueKey,
         name |-> derivedTechniqueName(techniqueStr),
         tactic |-> method.tactic_name]
          @@ OptField(step.step_description # "",
                      [rationale |-> step.step_description])
  IN IF techniqueId = NoMatch THEN st
     ELSE IF techniqueKey \in st.seen THEN st
     ELSE [maps |-> indexTechnique(st.maps, method.tactic_name, techniqueKey,
                                   technique, attackPath, method),
           seen |-> st.seen \cup {techniqueKey}]

\* The fallback for a method without selected_techniques: the techniques named
\* by the attack-flow steps of the method's tactic.
indexStepTechniques(maps, attackPath, method) ==
  LET matchingSteps ==
        SelectSeq(attackFlowOf(attackPath),
                  LAMBDA step : step.step_mitre_tactic = method.tactic_name)
      perStep(st, step) ==
        FoldLeft(LAMBDA acc, techniqueStr :
                   indexTechniqueString(acc, attackPath, method, step, techniqueStr),
                 st, techniqueStrings(step.step_mitre_technique))
  IN FoldLeft(perStep, [maps |-> maps, seen |-> {}], matchingSteps).maps

\* attackPath.adversarial_methods.forEach((method) => ...)
indexMethod(maps, attackPath, method) ==
  IF ~Has(method, "tactic_name") \/ method.tactic_name = "" THEN maps
  ELSE IF ~methodAchievable(method) THEN maps
  ELSE LET withTactic ==
             [maps EXCEPT !.techniquesMap =
                IF MapHas(@, method.tactic_name) THEN @
                ELSE MapSet(@, method.tactic_name, EmptyMap)]
       IN IF Has(method, "selected_techniques")
          THEN indexSelectedTechniques(withTactic, attackPath, method)
          ELSE indexStepTechniques(withTactic, attackPath, method)

\* attackPathsData.attack_paths.forEach((attackPath) => ...)
indexAttackPath(maps, attackPath) ==
  IF ~Has(attackPath, "adversarial_methods") THEN maps
  ELSE FoldLeft(LAMBDA acc, method : indexMethod(acc, attackPath, method),
                maps, attackPath.adversarial_methods)

\* techniquesMap and findingsMap of a loaded dataset.
buildIndex(attackPathsData) ==
  FoldLeft(indexAttackPath,
           [techniquesMap |-> EmptyMap, findingsMap |-> EmptyMap],
           attackPathsData.attack_paths)

----------------------------------------------------------------------------
(* AttackPaths: getTechniqueSpecificInfo *)

UpperCh(c) ==
  IF \E i \in 1..Len(LowerCase) : Ch(LowerCase, i) = c
  THEN Ch(UpperCase, CHOOSE i \in 1..Len(LowerCase) : Ch(LowerCase, i) = c)
  ELSE c

RECURSIVE toUpperCase(_)
toUpperCase(s) ==
  IF s = "" THEN "" ELSE UpperCh(Ch(s, 1)) \o toUpperCase(Tail(s))

\* Length of the match of /T\d{4}(\.\d{3})?/i starting at position i, 0 if none.
IdLenAtAnyCase(s, i) ==
  IF /\ i + 4 <= Len(s)
     /\ Ch(s, i) \in {"T", "t"}
     /\ \A k \in 1..4 : IsDigit(Ch(s, i + k))
  THEN IF /\ i + 8 <= Len(s)
          /\ Ch(s, i + 5) = "."
          /\ \A k \in 6..8 : IsDigit(Ch(s, i + k))
       THEN 9
       ELSE 5
  ELSE 0

\* str.match(/T\d{4}(\.\d{3})?/gi) || [] from position i on: every match, left to
\* right, each search starting where the match before it ended.
RECURSIVE techniqueIdsFrom(_, _)
techniqueIdsFrom(str, i) ==
  IF i > Len(str) THEN << >>
  ELSE IF IdLenAtAnyCase(str, i) > 0
       THEN << SubSeq(str, i, i + IdLenAtAnyCase(str, i) - 1) >>
              \o techniqueIdsFrom(str, i + IdLenAtAnyCase(str, i))
       ELSE techniqueIdsFrom(str, i + 1)

allTechniqueIds(str) == techniqueIdsFrom(str, 1)

\* str.match(/T\d{4}(\.\d{3})?/i): the leftmost match, or null.
firstTechniqueId(str) ==
  IF allTechniqueIds(str) = << >> THEN NoMatch ELSE allTechniqueIds(str)[1]

StixPrefix == "attack-pattern--t"

\* Group 1 of /attack-pattern--t(\d{4}(?:\.\d{3})?)/i matched at position i, or
\* NoMatch.
stixMatchAt(key, i) ==
  LET d == i + Len(StixPrefix)
  IN IF /\ d + 3 <= Len(key)
        /\ toLowerCase(SubSeq(key, i, d - 1)) = StixPrefix
        /\ \A k \in 0..3 : IsDigit(Ch(key, d + k))
     THEN IF /\ d + 7 <= Len(key)
             /\ Ch(key, d + 4) = "."
             /\ \A k \in 5..7 : IsDigit(Ch(key, d + k))
          THEN SubSeq(key, d, d + 7)
          ELSE SubSeq(key, d, d + 3)
     ELSE NoMatch

extractTechniqueIdFromKey(key) ==
  LET stixHits == {i \in 1..Len(key) : stixMatchAt(key, i) # NoMatch}
  IN IF stixHits # {}
     THEN "T" \o stixMatchAt(key, CHOOSE h \in stixHits : \A g \in stixHits : h <= g)
     ELSE firstTechniqueId(key)

\* id.split('.')[0]
RECURSIVE beforeDot(_)
beforeDot(id) ==
  IF id = "" \/ Ch(id, 1) = "." THEN "" ELSE Ch(id, 1) \o beforeDot(Tail(id))

\* techniqueIdsMatch that takes a sub-technique for its parent only when the
\* sub-technique is the step's.
techniqueIdsMatchOneWay(id1, id2) == beforeDot(id1) = id2

techniqueIdsMatch(id1, id2) == beforeDot(id1) = beforeDot(id2)

\* String.includes
includes(str, word) ==
  \E i \in 1..(Len(str) - Len(word) + 1) : SubSeq(str, i, i + Len(word) - 1) = word

\* The words of str.split(/\s+/) that are not empty.
RECURSIVE wordsFrom(_, _, _)
wordsFrom(str, start, i) ==
  IF i > Len(str)
  THEN IF start <= Len(str) THEN << SubSeq(str, start, Len(str)) >> ELSE << >>
  ELSE IF Ch(str, i) = " "
       THEN (IF start < i THEN << SubSeq(str, start, i - 1) >> ELSE << >>)
              \o wordsFrom(str, i + 1, i + 1)
       ELSE wordsFrom(str, start, i + 1)

StopWords == {"and", "the", "via", "for", "with"}

\* techniqueNameStr.split(/\s+/).filter(word => word.length > 3 && ...)
keyWords(techniqueNameStr) ==
  SelectSeq(wordsFrom(techniqueNameStr, 1, 1),
            LAMBDA word : Len(word) > 3 /\ word \notin StopWords)

\* method.tactic_name || ''
tacticOf(method) == IF Has(method, "tactic_name") THEN method.tactic_name ELSE ""

stepOfTechniqueOfTactic(finding, method, technique, techniqueName, step) ==
  LET stepTechnique == toLowerCase(step.step_mitre_technique)
      stepTactic == toLowerCase(step.step_mitre_tactic)
      methodTactic == toLowerCase(tacticOf(method))
      stepTechniqueIds == allTechniqueIds(stepTechnique)
      techniqueNameStr ==
        toLowerCase(IF techniqueName # "" THEN techniqueName ELSE technique.name)
      stepTechniqueId == firstTechniqueId(techniqueNameStr)
      words == keyWords(techniqueNameStr)
  IN \/ /\ stepTechniqueId # NoMatch
        /\ \E k \in 1..Len(stepTechniqueIds) :
             toUpperCase(stepTechniqueIds[k]) = toUpperCase(stepTechniqueId)
     \/ /\ \E k \in 1..Len(words) : includes(stepTechnique, words[k])
        /\ stepTactic = methodTactic
     \/ stepTactic = methodTactic

\* The filter of Case 1: does the step belong to the technique of the method.
stepOfTechnique(finding, method, technique, techniqueName, step) ==
  LET stepTechnique == toLowerCase(step.step_mitre_technique)
      stepTactic == toLowerCase(step.step_mitre_tactic)
      methodTactic == toLowerCase(tacticOf(method))
      stepTechniqueIds == allTechniqueIds(stepTechnique)
      techniqueNameStr ==
        toLowerCase(IF techniqueName # "" THEN techniqueName ELSE technique.name)
      stepTechniqueId == firstTechniqueId(techniqueNameStr)
      words == keyWords(techniqueNameStr)
      methodsInSameTactic ==
        SelectSeq(finding.adversarial_methods,
                  LAMBDA m : Has(m, "tactic_name")
                               /\ toLowerCase(m.tactic_name) = methodTactic)
  IN \/ /\ stepTechniqueId # NoMatch
        /\ \E k \in 1..Len(stepTechniqueIds) :
             toUpperCase(stepTechniqueIds[k]) = toUpperCase(stepTechniqueId)
     \/ /\ \E k \in 1..Len(words) : includes(stepTechnique, words[k])
        /\ stepTactic = methodTactic
     \/ /\ stepTactic = methodTactic
        /\ Len(methodsInSameTactic) = 1

\* Does the ';'-segment name a technique id that matches techniqueId.
segmentMatches(techniqueStr, techniqueId) ==
  \E k \in 1..Len(allTechniqueIds(techniqueStr)) :
    techniqueIdsMatch(toUpperCase(allTechniqueIds(techniqueStr)[k]),
                      toUpperCase(techniqueId))

\* The filter of Case 2: the step is of the method's tactic and one of its
\* segments names the technique id.
stepMatchesId(method, techniqueId, step) ==
  /\ toLowerCase(step.step_mitre_tactic) = toLowerCase(tacticOf(method))
  /\ \E k \in 1..Len(techniqueStrings(step.step_mitre_technique)) :
       segmentMatches(techniqueStrings(step.step_mitre_technique)[k], techniqueId)

\* The name that the first qualifying segment of the step gives, or NoMatch: a
\* segment qualifies when it names the id and the name regex matches it.
nameFromStep(step, techniqueId) ==
  LET qualifying ==
        SelectSeq(techniqueStrings(step.step_mitre_technique),
                  LAMBDA techniqueStr :
                    /\ segmentMatches(techniqueStr, techniqueId)
                    /\ nameMatch(techniqueStr) # NoMatch)
  IN IF qualifying = << >> THEN [found |-> FALSE]
     ELSE [found |-> TRUE, name |-> trim(nameMatch(qualifying[1]))]

\* techniqueNameFromStep: the loop over the matching steps ends at the first
\* step that changes the name.
RECURSIVE techniqueNameFromSteps(_, _, _)
techniqueNameFromSteps(matchingSteps, techniqueId, techniqueName) ==
  IF matchingSteps = << >> THEN techniqueName
  ELSE LET named == nameFromStep(Head(matchingSteps), techniqueId)
       IN IF named.found /\ named.name # techniqueName THEN named.name
          ELSE techniqueNameFromSteps(Tail(matchingSteps), techniqueId, techniqueName)

\* a || b || 'Unknown'
orUnknown(a, b) == IF a # "" THEN a ELSE IF b # "" THEN b ELSE "Unknown"

\* method.method_steps || []
allMethodStepsOf(method) ==
  IF Has(method, "method_steps") THEN method.method_steps ELSE << >>

\* The body of the loop over finding.adversarial_methods from method k on.
RECURSIVE resolveFrom(_, _, _, _, _)
resolveFrom(finding, techniqueKey, techniqueName, tacticName, k) ==
  IF k > Len(finding.adversarial_methods) THEN Null
  ELSE
    LET method == finding.adversarial_methods[k]
        techniqueId ==
          IF extractTechniqueIdFromKey(techniqueKey) # NoMatch
          THEN extractTechniqueIdFromKey(techniqueKey)
          ELSE extractTechniqueIdFromKey(techniqueName)
        attackFlow == attackFlowOf(finding)
        listed ==
          IF Has(method, "selected_techniques")
          THEN SelectSeq(method.selected_techniques,
                         LAMBDA t : techniqueKeyOf(t) = techniqueKey)
          ELSE << >>
        matchingSteps ==
          SelectSeq(attackFlow, LAMBDA step : stepMatchesId(method, techniqueId, step))
        rest == resolveFrom(finding, techniqueKey, techniqueName, tacticName, k + 1)
    IN IF /\ tacticName # ""
          /\ tacticOf(method) # ""
          /\ toLowerCase(tacticOf(method)) # toLowerCase(tacticName)
       THEN rest
       ELSE IF listed # << >>
       THEN [method |-> method,
             technique |-> listed[1],
             methodSteps |->
               SelectSeq(attackFlow,
                         LAMBDA step : stepOfTechnique(finding, method, listed[1],
                                                       techniqueName, step)),
             allMethodSteps |-> allMethodStepsOf(method)]
              @@ OptField(Has(listed[1], "rationale"),
                          [rationale |-> listed[1].rationale])
       ELSE IF techniqueId # NoMatch /\ matchingSteps # << >>
       THEN [method |-> method,
             technique |->
               [stix_id |-> techniqueKey,
                name |-> orUnknown(techniqueNameFromSteps(matchingSteps, techniqueId,
                                                          techniqueName),
                                   techniqueName)]
                 @@ OptField(matchingSteps[1].step_description # "",
                             [rationale |-> matchingSteps[1].step_description]),
             methodSteps |-> matchingSteps,
             allMethodSteps |-> allMethodStepsOf(method)]
              @@ OptField(matchingSteps[1].step_description # "",
                          [rationale |-> matchingSteps[1].step_description])
       ELSE rest

\* getTechniqueSpecificInfo: null without adversarial_methods, else what the
\* loop over the methods returns.
getTechniqueSpecificInfo(finding, techniqueKey, techniqueName, tacticName) ==
  IF ~Has(finding, "adversarial_methods") THEN Null
  ELSE resolveFrom(finding, techniqueKey, techniqueName, tacticName, 1)

----------------------------------------------------------------------------
(* The static files behind fetch *)

Apps == {"a", "b"}

EmptySection == [vectors |-> << >>]

\* A comprehensive document of app with the given vectors in two of its stages.
ComprehensiveDoc(app, initialAccess, execution) ==
  [application_name |-> app,
   initial_access |-> [vectors |-> initialAccess],
   discovery |-> EmptySection,
   execution |-> [vectors |-> execution],
   persistence |-> EmptySection,
   privilege_escalation |-> EmptySection,
   defense_evasion |-> EmptySection,
   credential_access |-> EmptySection,
   lateral_movement |-> EmptySection,
   collection |-> EmptySection,
   command_and_control |-> EmptySection,
   exfiltration |-> EmptySection,
   impact |-> EmptySection]

\* The record r without its field f.
Without(r, f) == [x \in DOMAIN r \ {f} |-> r[x]]

JsonFile(fields) == [kind |-> "json", value |-> [jsonType |-> "object", fields |-> fields]]

MissingFile == [kind |-> "missing"]

TextFile == [kind |-> "text"]

Phishing ==
  [technique_stix_id |-> "T1566", technique_name |-> "Phishing", can_achieve |-> TRUE,
   method_steps |-> << [description |-> "Send email"] >>]

ValidAccounts ==
  [technique_stix_id |-> "T1078", technique_name |-> "Valid Accounts",
   can_achieve |-> FALSE,
   method_steps |-> << [description |-> "Reuse a password"] >>]

DriveBy == [technique_name |-> "Drive-by Compromise", can_achieve |-> TRUE]

PhishingAgain ==
  [technique_stix_id |-> "T1566", technique_name |-> "Phishing", can_achieve |-> TRUE,
   method_steps |-> << [step_id |-> 2, description |-> "Call the help desk"],
                       [description |-> "Ask for a reset"] >>]

Spearphishing ==
  [technique_stix_id |-> "T1566.001", technique_name |-> "Spearphishing Attachment",
   method_steps |-> << [step_id |-> 0, description |-> "Attach a macro"] >>]

PhishingService ==
  [technique_stix_id |-> "T1566", technique_name |-> "Phishing via Service",
   can_achieve |-> TRUE]

Scripting ==
  [technique_stix_id |-> "T1059", technique_name |-> "Command Interpreter",
   can_achieve |-> TRUE,
   method_steps |-> << [description |-> "Run a script"] >>]

\* The files of the program's two applications: a is well-formed, b is drawn
\* from a well-formed document and the three ways of not being one.
FileA ==
  JsonFile(ComprehensiveDoc("a", << Phishing, ValidAccounts, PhishingService >>,
                            << Scripting >>))

FilesB ==
  { JsonFile(ComprehensiveDoc("b", << DriveBy, Spearphishing >>, << >>)),
    MissingFile,
    TextFile,
    JsonFile(Without(ComprehensiveDoc("b", << Phishing >>, << >>), "impact")) }

\* Documents drawn for the loader: up to MaxVectors vectors in Initial Access,
\* with Execution empty or not.
MaxVectors == 2

Vectors ==
  {Phishing, ValidAccounts, DriveBy, PhishingAgain, Spearphishing, PhishingService}

VectorLists == UNION {[1..n -> Vectors] : n \in 0..MaxVectors}

LoaderDocs ==
  {ComprehensiveDoc("b", initialAccess, execution) :
     initialAccess \in VectorLists, execution \in {<< >>, << Scripting, Phishing >>}}

\* Files that parse and are not a comprehensive document, or are none at all.
MalformedFiles ==
  LET doc == ComprehensiveDoc("b", << Phishing >>, << >>)
  IN {JsonFile(Without(doc, f)) : f \in DOMAIN doc}
       \cup { JsonFile([doc EXCEPT !.impact = Null]),
              JsonFile([doc EXCEPT !.application_name = ""]),
              [kind |-> "json", value |-> [jsonType |-> "null", fields |-> EmptyMap]],
              [kind |-> "json", value |-> [jsonType |-> "array", fields |-> EmptyMap]],
              MissingFile,
              TextFile }

LoaderFiles ==
  {JsonFile(doc) : doc \in LoaderDocs}
    \cup {JsonFile([ComprehensiveDoc("b", << Phishing >>, << >>)
                      EXCEPT !.discovery = [summary |-> "none"]])}
    \cup MalformedFiles

----------------------------------------------------------------------------
(* Values of type AttackPathsData (types.ts), drawn for the index build *)

MaxFindings == 2

\* The most adversarial methods in one dataset.
MaxMethods == 2

TPhishing == [stix_id |-> "T1566", name |-> "Phishing"]

TService ==
  [stix_id |-> "T1566", name |-> "Phishing via Service",
   rationale |-> "Third-party chat"]

TDriveBy == [name |-> "Drive-by Compromise"]

Flags == {"true", "false", "absent"}

\* An AdversarialMethod; can_achieve is optional.
Method(tacticName, flag, optional) ==
  [tactic_name |-> tacticName]
    @@ OptField(flag # "absent", [can_achieve |-> (flag = "true")])
    @@ optional

Methods ==
  {Method("Initial Access", flag, [selected_techniques |-> << TPhishing >>]) :
     flag \in Flags}
    \cup {Method("Initial Access", "true",
                 [selected_techniques |-> << TService, TDriveBy >>])}
    \cup {Method("Execution", flag, << >>) : flag \in Flags}
    \cup {Method("Initial Access", "true", << >>)}

StepCommand ==
  [step_name |-> "Step 1", step_description |-> "Run a script",
   step_mitre_tactic |-> "Execution",
   step_mitre_technique |-> "T1059 - Command Interpreter"]

StepShell ==
  [step_name |-> "Step 1", step_description |-> "",
   step_mitre_tactic |-> "Execution",
   step_mitre_technique |-> "T1059.001 " \o EnDash \o " PowerShell; t1059 ;T1059-Shell"]

StepMail ==
  [step_name |-> "Step 2", step_description |-> "Send email",
   step_mitre_tactic |-> "Initial Access",
   step_mitre_technique |-> "T1566"]

\* attack_flow_hypothesis of a drawn finding; << >> stands for no hypothesis.
Flows == { << >>, << StepCommand >>, << StepShell, StepMail, StepCommand >> }

ScenarioNames == {"S1", "S2"}

TypedFinding(scenarioName, attackFlow, methods) ==
  [scenario_name |-> scenarioName, adversarial_methods |-> methods]
    @@ OptField(attackFlow # << >>,
                [hypothesis |-> [starting_tactic |-> "Initial Access",
                                 objective_tactic |-> "Execution",
                                 attack_flow_hypothesis |-> attackFlow]])

\* The findings with n methods.
TypedFindings(n) ==
  {TypedFinding(scenarioName, attackFlow, methods) :
     scenarioName \in ScenarioNames, attackFlow \in Flows,
     methods \in [1..n -> Methods]}

Min(a, b) == IF a < b THEN a ELSE b

\* attack_paths of the drawn datasets: one finding of up to MaxMethods methods,
\* or up to MaxFindings findings of one method each.
TypedAttackPaths ==
  {<< finding >> : finding \in UNION {TypedFindings(n) : n \in 1..MaxMethods}}
    \cup UNION {[1..n -> TypedFindings(1)] : n \in 2..Min(MaxFindings, MaxMethods)}

----------------------------------------------------------------------------
(* Findings and targets drawn for getTechniqueSpecificInfo *)

\* The most steps in the attack flow of a drawn finding.
MaxSteps == 2

TAccount == [stix_id |-> "T1098", name |-> "Account Manipulation"]

TCloudRoles ==
  [stix_id |-> "T1098.003", name |-> "Additional Cloud Roles",
   rationale |-> "Roles are granted without review"]

TAutostart == [name |-> "Boot or Logon Autostart"]

StepRoles ==
  [step_name |-> "Step 1", step_description |-> "Grant a role",
   step_mitre_tactic |-> "Persistence",
   step_mitre_technique |-> "T1098.003 - Additional Cloud Roles"]

StepManipulate ==
  [step_name |-> "Step 2", step_description |-> "",
   step_mitre_tactic |-> "persistence",
   step_mitre_technique |-> "t1098; T1547 " \o EnDash \o " Autostart"]

ResolveSteps == {StepRoles, StepManipulate, StepCommand}

ResolveFlows == UNION {[1..n -> ResolveSteps] : n \in 0..MaxSteps}

ResolveMethods ==
  { Method("Persistence", "true", [selected_techniques |-> << TAccount >>]),
    Method("Persistence", "true",
           [selected_techniques |-> << TCloudRoles, TAutostart >>,
            method_steps |-> << [description |-> "Grant a role"] >>]),
    Method("Persistence", "true", << >>),
    Method("Execution", "true", << >>) }

\* The drawn findings: up to MaxMethods methods each, and one finding without
\* adversarial_methods.
ResolveFindings ==
  {TypedFinding("S1", attackFlow, methods) :
     attackFlow \in ResolveFlows,
     methods \in UNION {[1..n -> ResolveMethods] : n \in 1..MaxMethods}}
    \cup {[scenario_name |-> "S2"]}

\* Target keys: ids, sub-technique ids, synthesized keys, a name, and an id
\* that no drawn method lists.
ResolveKeys ==
  {"T1098", "T1098.003", "attack-pattern--t1098", "attack-pattern--t1098-003",
   "Boot or Logon Autostart", "T1547"}

\* techniqueName: a name, or none.
ResolveNames == {"Account Manipulation", ""}

\* tacticName: a tactic, or no filter.
ResolveTactics == {"Persistence", ""}

----------------------------------------------------------------------------
(* AttackPaths: state *)

VARIABLES
  server,                      \* app -> the file behind its comprehensive URL
  appName,                     \* the appName prop
  loads,                       \* the loadData calls started so far
  attackPathsData,
  comprehensiveAnalysisData,
  techniquesByTactic,
  findingsByTechnique,
  loading,
  error,
  view,
  selectedTechnique,
  selectedFinding,
  selectedTactics,
  pathVisualizationFinding,
  selectedFindingForTechnique,
  breakdown,                   \* the ApplicationBreakdown component, when mounted
  graph,                       \* the PathVisualization component, when mounted
  resolution                   \* a call of getTechniqueSpecificInfo

navVars == << view, selectedTechnique, selectedFinding, pathVisualizationFinding,
              selectedFindingForTechnique >>

dataVars == << attackPathsData, comprehensiveAnalysisData, techniquesByTactic,
               findingsByTechnique, selectedTactics, loading, error >>

\* What is not state of the AttackPaths component.
outside == << breakdown, graph, resolution >>

vars == << server, appName, loads, dataVars, navVars, outside >>

MaxLoads == 3

MITRE_TACTICS ==
  << "Initial Access", "Execution", "Persistence", "Privilege Escalation",
     "Defense Evasion", "Credential Access", "Discovery", "Lateral Movement",
     "Collection", "Command and Control", "Exfiltration", "Impact" >>

\* The file that loadComprehensiveAnalysisData requests.
comprehensiveUrl(app) == "data/comprehensive/" \o app \o "_comprehensive_analysis.json"

\* A loadData call: awaiting loadComprehensiveAnalysisData, then awaiting
\* loadAttackPathsData, then done (returned or caught). comprehensiveData is the
\* const of that name, which lives as long as the call.
\* fetched is the list of the files the call has requested so far.
NewLoad(app) ==
  [app |-> app, pc |-> "comprehensive", comprehensiveData |-> Null,
   outcome |-> "pending", fetched |-> << >>]

\* useState initial values, and the mount run of the load effect.
InitState(app) ==
  /\ appName = app
  /\ loads = << NewLoad(app) >>
  /\ attackPathsData = Null
  /\ comprehensiveAnalysisData = Null
  /\ techniquesByTactic = EmptyMap
  /\ findingsByTechnique = EmptyMap
  /\ loading = TRUE
  /\ error = Null
  /\ view = "matrix"
  /\ selectedTechnique = Null
  /\ selectedFinding = Null
  /\ selectedTactics = {}
  /\ pathVisualizationFinding = Null
  /\ selectedFindingForTechnique = Null

\* AttackPaths alone: no other component is mounted and nothing is being
\* resolved.
InitOutside ==
  /\ breakdown = Null
  /\ graph = Null
  /\ resolution = Null

Init ==
  /\ server \in {[app \in Apps |-> IF app = "a" THEN FileA ELSE fb] : fb \in FilesB}
  /\ \E app \in Apps : InitState(app)
  /\ InitOutside

\* findingsByTechnique.get(fullKey) || []
findingsFor(tactic, techniqueKey) ==
  IF MapHas(findingsByTechnique, fullKeyOf(tactic, techniqueKey))
  THEN findingsByTechnique[fullKeyOf(tactic, techniqueKey)]
  ELSE << >>

\* What the component returns: the early returns of the render, in order.
Screen ==
  IF loading THEN "loading"
  ELSE IF error # Null \/ attackPathsData = Null THEN "unavailable"
  ELSE IF view = "technique" /\ selectedTechnique # Null THEN "technique"
  ELSE IF view = "finding" /\ selectedFinding # Null THEN "finding"
  ELSE IF view = "path-visualization" /\ pathVisualizationFinding # Null
       THEN "path-visualization"
  ELSE "matrix"

\* The condition of the auto-select effect. A passive effect runs after the
\* render that enabled it and before anything else is handled.
autoSelectDue ==
  /\ view = "technique"
  /\ selectedTechnique # Null
  /\ selectedFindingForTechnique = Null
  /\ Len(findingsFor(selectedTechnique.tactic, selectedTechnique.techniqueKey)) > 0

----------------------------------------------------------------------------
(* AttackPaths: the load effect *)

\* The appName prop changes: the load effect runs again, setLoading(true), and a
\* new loadData call is in flight beside the earlier ones. Nothing cancels those.
ChangeAppName(app) ==
  /\ ~autoSelectDue
  /\ app # appName
  /\ Len(loads) < MaxLoads
  /\ appName' = app
  /\ loads' = Append(loads, NewLoad(app))
  /\ loading' = TRUE
  /\ UNCHANGED << outside, server, attackPathsData, comprehensiveAnalysisData,
                  techniquesByTactic, findingsByTechnique, selectedTactics, error,
                  navVars >>

\* await loadComprehensiveAnalysisData(baseUrl, appName) returns in call i.
ComprehensiveReturns(i, fetchRejected) ==
  /\ ~autoSelectDue
  /\ i \in 1..Len(loads)
  /\ loads[i].pc = "comprehensive"
  /\ \E comprehensiveData \in
          {loadComprehensiveAnalysisData(fetchRejected, server[loads[i].app])} :
        /\ comprehensiveAnalysisData' =
             IF comprehensiveData # Null THEN comprehensiveData
             ELSE comprehensiveAnalysisData
        /\ loads' = [loads EXCEPT ![i].pc = "attackPaths",
                                  ![i].comprehensiveData = comprehensiveData,
                                  ![i].fetched = Append(@, comprehensiveUrl(loads[i].app))]
  /\ UNCHANGED << outside, server, appName, attackPathsData, techniquesByTactic,
                  findingsByTechnique, selectedTactics, loading, error, navVars >>

\* The rest of the try block once loadAttackPathsData has returned data, and
\* the finally block. The maps are built once and then set.
applyLoaded(i, data) ==
  \E maps \in {buildIndex(data)} :
     /\ attackPathsData' = data
     /\ techniquesByTactic' = maps.techniquesMap
     /\ findingsByTechnique' = maps.findingsMap
     /\ selectedTactics' = DOMAIN maps.techniquesMap
     /\ error' = Null
     /\ loading' = FALSE
     /\ loads' = [loads EXCEPT ![i].pc = "done", ![i].comprehensiveData = Null,
                                ![i].outcome = "loaded",
                                ![i].fetched = Append(@, comprehensiveUrl(loads[i].app))]

\* await loadAttackPathsData(baseUrl, appName) returns data in call i.
LoadSucceeds(i) ==
  /\ ~autoSelectDue
  /\ i \in 1..Len(loads)
  /\ loads[i].pc = "attackPaths"
  /\ \E result \in {loadAttackPathsData(FALSE, server[loads[i].app], loads[i].app)} :
        /\ ~result.threw
        /\ applyLoaded(i, result.data)
  /\ UNCHANGED << outside, server, appName, comprehensiveAnalysisData, navVars >>

\* LoadFails with the error swallowed: the catch block sets no message.
LoadFailsSilently(i, fetchRejected) ==
  /\ ~autoSelectDue
  /\ i \in 1..Len(loads)
  /\ loads[i].pc = "attackPaths"
  /\ \E result \in {loadAttackPathsData(fetchRejected, server[loads[i].app],
                                        loads[i].app)} :
        result.threw
  /\ loading' = FALSE
  /\ loads' = [loads EXCEPT ![i].pc = "done", ![i].comprehensiveData = Null,
                            ![i].outcome = "failed",
                            ![i].fetched = Append(@, comprehensiveUrl(loads[i].app))]
  /\ UNCHANGED << outside, server, appName, attackPathsData, comprehensiveAnalysisData,
                  techniquesByTactic, findingsByTechnique, selectedTactics, error,
                  navVars >>

\* await loadAttackPathsData(baseUrl, appName) throws in call i: the catch block
\* and the finally block.
LoadFails(i, fetchRejected) ==
  /\ ~autoSelectDue
  /\ i \in 1..Len(loads)
  /\ loads[i].pc = "attackPaths"
  /\ \E result \in {loadAttackPathsData(fetchRejected, server[loads[i].app],
                                        loads[i].app)} :
        /\ result.threw
        /\ error' = [message |-> result.message]
  /\ loading' = FALSE
  /\ loads' = [loads EXCEPT ![i].pc = "done", ![i].comprehensiveData = Null,
                            ![i].outcome = "failed",
                            ![i].fetched = Append(@, comprehensiveUrl(loads[i].app))]
  /\ UNCHANGED << outside, server, appName, attackPathsData, comprehensiveAnalysisData,
                  techniquesByTactic, findingsByTechnique, selectedTactics,
                  navVars >>

\* await loadAttackPathsData(baseUrl, appName) returns in call i a dataset of type
\* AttackPathsData: the try block from there on, and the finally block.
AttackPathsReturned(i, attackPaths) ==
  /\ ~autoSelectDue
  /\ i \in 1..Len(loads)
  /\ loads[i].pc = "attackPaths"
  /\ applyLoaded(i, [attack_paths |-> attackPaths,
                     application_name |-> loads[i].app])
  /\ UNCHANGED << outside, server, appName, comprehensiveAnalysisData, navVars >>

----------------------------------------------------------------------------
(* AttackPaths: navigation *)

\* AutoSelect that selects the last finding of the list.
AutoSelectLast ==
  /\ autoSelectDue
  /\ \E findings \in {findingsFor(selectedTechnique.tactic,
                                  selectedTechnique.techniqueKey)} :
       selectedFindingForTechnique' = findings[Len(findings)]
  /\ UNCHANGED << outside, server, appName, loads, dataVars, view, selectedTechnique,
                  selectedFinding, pathVisualizationFinding >>

\* The effect "auto-select first finding when entering technique view".
AutoSelect ==
  /\ autoSelectDue
  /\ selectedFindingForTechnique' =
       findingsFor(selectedTechnique.tactic, selectedTechnique.techniqueKey)[1]
  /\ UNCHANGED << outside, server, appName, loads, dataVars, view, selectedTechnique,
                  selectedFinding, pathVisualizationFinding >>

\* The tactic columns of the matrix: MITRE tactics with techniques that are
\* selected in the column filter.
visibleTactics ==
  {tactic \in {MITRE_TACTICS[t] : t \in 1..Len(MITRE_TACTICS)} :
     /\ MapHas(techniquesByTactic, tactic)
     /\ DOMAIN techniquesByTactic[tactic] # {}
     /\ tactic \in selectedTactics}

\* handleTechniqueClick that opens the finding view.
handleTechniqueClickSkipsAhead(tactic, techniqueKey, technique) ==
  /\ selectedTechnique' =
       [tactic |-> tactic, techniqueKey |-> techniqueKey, technique |-> technique]
  /\ selectedFindingForTechnique' = Null
  /\ view' = "finding"

handleTechniqueClick(tactic, techniqueKey, technique) ==
  /\ selectedTechnique' =
       [tactic |-> tactic, techniqueKey |-> techniqueKey, technique |-> technique]
  /\ selectedFindingForTechnique' = Null
  /\ view' = "technique"

\* A click on the cell of a technique stored under tactic: the cell recomputes
\* the technique's key.
TechniqueClick(tactic, storedKey) ==
  /\ ~autoSelectDue
  /\ Screen = "matrix"
  /\ tactic \in visibleTactics
  /\ storedKey \in DOMAIN techniquesByTactic[tactic]
  /\ LET technique == techniquesByTactic[tactic][storedKey]
     IN handleTechniqueClick(tactic, techniqueKeyOf(technique), technique)
  /\ UNCHANGED << outside, server, appName, loads, dataVars, selectedFinding,
                  pathVisualizationFinding >>

FindingClickOpensFinding(k) ==
  /\ ~autoSelectDue
  /\ Screen = "technique"
  /\ k \in 1..Len(findingsFor(selectedTechnique.tactic,
                              selectedTechnique.techniqueKey))
  /\ selectedFindingForTechnique' =
       findingsFor(selectedTechnique.tactic, selectedTechnique.techniqueKey)[k]
  /\ selectedFinding' =
       findingsFor(selectedTechnique.tactic, selectedTechnique.techniqueKey)[k]
  /\ UNCHANGED << outside, server, appName, loads, dataVars, view, selectedTechnique,
                  pathVisualizationFinding >>

\* A click on the k-th finding of the side list of the technique view.
FindingClick(k) ==
  /\ ~autoSelectDue
  /\ Screen = "technique"
  /\ k \in 1..Len(findingsFor(selectedTechnique.tactic,
                              selectedTechnique.techniqueKey))
  /\ selectedFindingForTechnique' =
       findingsFor(selectedTechnique.tactic, selectedTechnique.techniqueKey)[k]
  /\ UNCHANGED << outside, server, appName, loads, dataVars, view, selectedTechnique,
                  selectedFinding, pathVisualizationFinding >>

handleBackKeepsTechnique ==
  IF view = "path-visualization"
  THEN /\ view' = "technique"
       /\ pathVisualizationFinding' = Null
       /\ UNCHANGED << selectedTechnique, selectedFinding,
                       selectedFindingForTechnique >>
  ELSE IF view = "finding"
  THEN /\ view' = "technique"
       /\ selectedFinding' = Null
       /\ UNCHANGED << selectedTechnique, pathVisualizationFinding,
                       selectedFindingForTechnique >>
  ELSE IF view = "technique"
  THEN /\ view' = "matrix"
       /\ UNCHANGED << selectedTechnique, selectedFinding,
                       pathVisualizationFinding, selectedFindingForTechnique >>
  ELSE UNCHANGED navVars

handleBack ==
  IF view = "path-visualization"
  THEN /\ view' = "technique"
       /\ pathVisualizationFinding' = Null
       /\ UNCHANGED << selectedTechnique, selectedFinding,
                       selectedFindingForTechnique >>
  ELSE IF view = "finding"
  THEN /\ view' = "technique"
       /\ selectedFinding' = Null
       /\ UNCHANGED << selectedTechnique, pathVisualizationFinding,
                       selectedFindingForTechnique >>
  ELSE IF view = "technique"
  THEN /\ view' = "matrix"
       /\ selectedTechnique' = Null
       /\ UNCHANGED << selectedFinding, pathVisualizationFinding,
                       selectedFindingForTechnique >>
  ELSE UNCHANGED navVars

BackClearsOnly ==
  /\ ~autoSelectDue
  /\ Screen \in {"technique", "finding", "path-visualization"}
  /\ selectedTechnique' = Null
  /\ pathVisualizationFinding' = Null
  /\ selectedFinding' = Null
  /\ UNCHANGED << view, selectedFindingForTechnique >>
  /\ UNCHANGED << outside, server, appName, loads, dataVars >>

\* A click on the back button, which the technique, finding and
\* path-visualization screens carry.
Back ==
  /\ ~autoSelectDue
  /\ Screen \in {"technique", "finding", "path-visualization"}
  /\ handleBack
  /\ UNCHANGED << outside, server, appName, loads, dataVars >>

----------------------------------------------------------------------------

Next ==
  \/ \E app \in Apps : ChangeAppName(app)
  \/ \E i \in 1..Len(loads) : \E r \in BOOLEAN : ComprehensiveReturns(i, r)
  \/ \E i \in 1..Len(loads) : LoadSucceeds(i)
  \/ \E i \in 1..Len(loads) : \E r \in BOOLEAN : LoadFails(i, r)
  \/ AutoSelect
  \/ \E tactic \in visibleTactics :
       \E key \in DOMAIN techniquesByTactic[tactic] :
         TechniqueClick(tactic, key)
  \/ \E k \in (IF selectedTechnique = Null THEN {}
               ELSE 1..Len(findingsFor(selectedTechnique.tactic,
                                       selectedTechnique.techniqueKey))) :
       FindingClick(k)
  \/ Back

Spec == Init /\ [][Next]_vars

\* A step of some loadData call: one of its awaits returns or throws.
LoadStep ==
  \E i \in 1..Len(loads) : \E fetchRejected \in BOOLEAN :
     \/ ComprehensiveReturns(i, fetchRejected)
     \/ LoadSucceeds(i)
     \/ LoadFails(i, fetchRejected)

\* Every fetch settles and every passive effect runs: the browser's event loop
\* starves neither a promise continuation nor an effect, however often the
\* user clicks in between.
FairSpec == Spec /\ WF_vars(AutoSelect) /\ SF_vars(LoadStep)

\* The load effect alone, on the files drawn for the loader.
InitLoader ==
  /\ server \in {[app \in Apps |-> IF app = "a" THEN FileA ELSE file] :
                   file \in LoaderFiles}
  /\ InitState("b")
  /\ InitOutside

NextLoader ==
  \/ \E i \in 1..Len(loads) : \E r \in BOOLEAN : ComprehensiveReturns(i, r)
  \/ \E i \in 1..Len(loads) : LoadSucceeds(i)
  \/ \E i \in 1..Len(loads) : \E r \in BOOLEAN : LoadFails(i, r)

SpecLoader == InitLoader /\ [][NextLoader]_vars

\* The load effect with loadAttackPathsData returning either what the loader
\* makes of the file or any of the drawn datasets.
InitIndex ==
  /\ server = [app \in Apps |->
                 IF app = "a" THEN FileA
                 ELSE JsonFile(ComprehensiveDoc("b", << DriveBy, Spearphishing >>,
                                                << >>))]
  /\ \E app \in Apps : InitState(app)
  /\ InitOutside

NextIndex ==
  \/ \E i \in 1..Len(loads) : \E r \in BOOLEAN : ComprehensiveReturns(i, r)
  \/ \E i \in 1..Len(loads) : LoadSucceeds(i)
  \/ \E i \in 1..Len(loads) : \E r \in BOOLEAN : LoadFails(i, r)
  \/ \E i \in 1..Len(loads) : \E attackPaths \in TypedAttackPaths :
       AttackPathsReturned(i, attackPaths)

SpecIndex == InitIndex /\ [][NextIndex]_vars

\* A call of getTechniqueSpecificInfo on a drawn finding and target, before the
\* AttackPaths component has loaded anything.
InitResolve ==
  /\ server = [app \in Apps |-> FileA]
  /\ InitState("a")
  /\ breakdown = Null
  /\ graph = Null
  /\ \E finding \in ResolveFindings, techniqueKey \in ResolveKeys,
        techniqueName \in ResolveNames, tacticName \in ResolveTactics :
       resolution = [finding |-> finding, techniqueKey |-> techniqueKey,
                     techniqueName |-> techniqueName, tacticName |-> tacticName,
                     returned |-> FALSE, info |-> Null]

\* The call returns.
Resolve ==
  /\ resolution # Null
  /\ ~resolution.returned
  /\ \E info \in {getTechniqueSpecificInfo(resolution.finding, resolution.techniqueKey,
                                           resolution.techniqueName,
                                           resolution.tacticName)} :
       resolution' = [resolution EXCEPT !.returned = TRUE, !.info = info]
  /\ UNCHANGED << server, appName, loads, dataVars, navVars, breakdown, graph >>

NextResolve == Resolve

SpecResolve == InitResolve /\ [][NextResolve]_vars

----------------------------------------------------------------------------
(* Claims *)

\* C1: whenever the view is matrix, every downstream selection is cleared:
\* selectedTechnique, selectedFinding, selectedFindingForTechnique and
\* pathVisualizationFinding are all null.
C1_MatrixHasNoSelection ==
  view = "matrix" =>
    /\ selectedTechnique = Null
    /\ selectedFinding = Null
    /\ selectedFindingForTechnique = Null
    /\ pathVisualizationFinding = Null

\* The dataset, and the indices, that the files of app give.
loadedFrom(app) == loadAttackPathsData(FALSE, server[app], app).data

allSettled == \A i \in 1..Len(loads) : loads[i].pc = "done"

ends(i) == i <= Len(loads) /\ loads[i].pc # "done" /\ loads'[i].pc = "done"

\* C3: a load that ends because the artifact could not be had (fetch rejected,
\* non-2xx, unparseable, structural mismatch) ends with loading = false and an
\* error message, and the unavailable state is what is rendered, whatever the
\* view; a load that ends with data ends with loading = false and error = null;
\* and every started load does end.
C3_LoadEndsHandled ==
  /\ [][\A i \in 1..MaxLoads :
          ends(i) =>
            /\ loading' = FALSE
            /\ loads'[i].outcome = "failed" =>
                 (error' # Null /\ error'.message # "" /\ Screen' = "unavailable")
            /\ loads'[i].outcome = "loaded" => error' = Null
            /\ loads'[i].outcome # "pending"]_vars
  /\ \A i \in 1..MaxLoads :
       (i <= Len(loads)) ~> (i <= Len(loads) /\ loads[i].pc = "done" /\ ~loading)

\* C3 witness: a load has failed while the technique view was open, and the
\* unavailable state is rendered.
C3_Witness ==
  /\ view = "technique"
  /\ Screen = "unavailable"
  /\ \E i \in 1..Len(loads) : loads[i].outcome = "failed"
  /\ \E i \in 1..Len(loads) : loads[i].outcome = "loaded"

----------------------------------------------------------------------------
(* Claims about loadComprehensiveAnalysisData *)

ThirteenFields ==
  {"application_name", "initial_access", "discovery", "execution", "persistence",
   "privilege_escalation", "defense_evasion", "credential_access",
   "lateral_movement", "collection", "command_and_control", "exfiltration",
   "impact"}

\* The file is a JSON object that has all thirteen fields.
hasAllThirteen(file) ==
  /\ file.kind = "json"
  /\ file.value.jsonType = "object"
  /\ ThirteenFields \subseteq DOMAIN file.value.fields

\* C4: loadComprehensiveAnalysisData never throws (the call always goes on to
\* loadAttackPathsData with what it returned); what it returned is null for a
\* rejected fetch, for a non-2xx response, for a body that does not parse and for
\* a document that lacks application_name or one of the twelve sections; and
\* when it is not null it is the document and the document has all thirteen
\* fields.
C4_ComprehensiveNullUnlessComplete ==
  /\ [](\A i \in 1..Len(loads) :
          loads[i].pc = "attackPaths" =>
            /\ ~hasAllThirteen(server[loads[i].app]) =>
                 loads[i].comprehensiveData = Null
            /\ loads[i].comprehensiveData # Null =>
                 loads[i].comprehensiveData = server[loads[i].app].value.fields)
  /\ [][\A i \in 1..Len(loads) :
          /\ ComprehensiveReturns(i, TRUE) => loads'[i].comprehensiveData = Null
          /\ (loads[i].pc = "comprehensive" /\ loads'[i] # loads[i]) =>
               loads'[i].pc = "attackPaths"]_vars

\* C4 witness: the call got null for a document that parses and lacks one
\* field only.
C4_Witness ==
  \E i \in 1..Len(loads) :
    /\ loads[i].pc = "attackPaths"
    /\ loads[i].comprehensiveData = Null
    /\ server[loads[i].app].kind = "json"
    /\ server[loads[i].app].value.jsonType = "object"
    /\ Cardinality(ThirteenFields \ DOMAIN server[loads[i].app].value.fields) = 1

----------------------------------------------------------------------------
(* Claims about the index build *)

\* The key of a technique: stix_id when it has one, else name.
resolvedKey(technique) ==
  IF Has(technique, "stix_id") /\ technique.stix_id # ""
  THEN technique.stix_id
  ELSE technique.name

\* The techniques named by the steps of the method's tactic, in order:
\* <<key, technique>> for every ';'-segment that holds a T####[.###] id.
derivedTechniques(finding, method) ==
  LET steps == SelectSeq(attackFlowOf(finding),
                         LAMBDA step : step.step_mitre_tactic = method.tactic_name)
      ofStep(step) ==
        LET segments ==
              SelectSeq(techniqueStrings(step.step_mitre_technique),
                        LAMBDA segment : extractTechniqueId(segment) # NoMatch)
        IN [k \in 1..Len(segments) |->
              [key |-> derivedTechniqueKey(extractTechniqueId(segments[k])),
               technique |->
                 [stix_id |-> derivedTechniqueKey(extractTechniqueId(segments[k])),
                  name |-> derivedTechniqueName(segments[k]),
                  tactic |-> method.tactic_name]
                   @@ OptField(step.step_description # "",
                               [rationale |-> step.step_description])]]
  IN FoldLeft(LAMBDA acc, step : acc \o ofStep(step), << >>, steps)

\* The techniques a method lists: its selected_techniques, or failing that the
\* techniques of its steps.
listedTechniques(finding, method) ==
  IF Has(method, "selected_techniques")
  THEN [k \in 1..Len(method.selected_techniques) |->
          [key |-> resolvedKey(method.selected_techniques[k]),
           technique |-> [tactic |-> method.tactic_name]
                           @@ method.selected_techniques[k]]]
  ELSE derivedTechniques(finding, method)

flagTrue(method) == Has(method, "can_achieve") /\ method.can_achieve = TRUE

flagFalse(method) == Has(method, "can_achieve") /\ method.can_achieve = FALSE

flagNotFalse(method) == ~flagFalse(method)

flagAbsent(method) == ~Has(method, "can_achieve")

\* The method is one of those whose can_achieve is as said: "true", "false",
\* "absent", or "not false" (true or absent).
counts(method, canAchieve) ==
  CASE canAchieve = "true" -> flagTrue(method)
    [] canAchieve = "false" -> flagFalse(method)
    [] canAchieve = "absent" -> flagAbsent(method)
    [] canAchieve = "not false" -> flagNotFalse(method)

\* The traversal of a dataset, flattened: one record per finding f, method m of
\* it whose can_achieve is as said, and technique the method lists, in the
\* order of the traversal.
registrations(attackPaths, canAchieve) ==
  LET ofMethod(f, m) ==
        LET method == attackPaths[f].adversarial_methods[m]
            listed == listedTechniques(attackPaths[f], method)
        IN IF ~counts(method, canAchieve) THEN << >>
           ELSE [k \in 1..Len(listed) |->
                   [f |-> f, m |-> m, method |-> method,
                    tactic |-> method.tactic_name,
                    key |-> listed[k].key, technique |-> listed[k].technique]]
      ofFinding(f) ==
        FoldLeft(LAMBDA acc, m : acc \o ofMethod(f, m), << >>,
                 [m \in 1..Len(attackPaths[f].adversarial_methods) |-> m])
  IN FoldLeft(LAMBDA acc, f : acc \o ofFinding(f), << >>,
              [f \in 1..Len(attackPaths) |-> f])

\* A dataset is loaded and the two maps were built from it.
indexed == attackPathsData # Null

registeredUnder(tactic, key) ==
  /\ MapHas(techniquesByTactic, tactic)
  /\ MapHas(techniquesByTactic[tactic], key)

\* The positions of the findings named scenarioName in the list under fullKey.
recordedAt(fullKey, scenarioName) ==
  {j \in 1..Len(IF MapHas(findingsByTechnique, fullKey)
                THEN findingsByTechnique[fullKey] ELSE << >>) :
     findingsByTechnique[fullKey][j].scenario_name = scenarioName}

\* The vectors of a stage of a comprehensive document.
vectorsOf(doc, field) ==
  IF Has(doc[field], "vectors") THEN doc[field].vectors ELSE << >>

\* Every finding of the dataset stems from a vector of its stage whose
\* can_achieve is not false, and there are no more findings than such vectors.
fromAchievableVectors(doc, attackPaths) ==
  /\ \A j \in 1..Len(attackPaths) :
       \E s \in 1..Len(TacticSections) :
         \E v \in 1..Len(vectorsOf(doc, TacticSections[s][2])) :
           LET vector == vectorsOf(doc, TacticSections[s][2])[v]
           IN /\ ~flagFalse(vector)
              /\ attackPaths[j].scenario_name = vector.technique_name
              /\ attackPaths[j].hypothesis.starting_tactic = TacticSections[s][1]
  /\ Len(attackPaths) <=
       FoldLeft(LAMBDA acc, section :
                  acc + Len(SelectSeq(vectorsOf(doc, section[2]), flagNotFalse)),
                0, TacticSections)

C6_FlagAbsentIsAchievable ==
  indexed =>
    LET attackPaths == attackPathsData.attack_paths
        R == registrations(attackPaths, "absent")
    IN \A k \in 1..Len(R) :
         /\ registeredUnder(R[k].tactic, R[k].key)
         /\ recordedAt(fullKeyOf(R[k].tactic, R[k].key),
                       attackPaths[R[k].f].scenario_name) # {}

\* The registrations of a finding named scenarioName under fullKey.
registrationsAt(R, attackPaths, fullKey, scenarioName) ==
  {k \in 1..Len(R) :
     /\ fullKeyOf(R[k].tactic, R[k].key) = fullKey
     /\ attackPaths[R[k].f].scenario_name = scenarioName}

Least(S) == CHOOSE k \in S : \A other \in S : k <= other

\* C7: whatever number of methods of a Finding the index build goes through
\* that list a technique key under a tactic, two or more in particular,
\* FindingIndex['<tactic>::<key>'] holds one finding of that scenario_name and
\* no more; the findings under one key have pairwise distinct scenario_name,
\* each is the first finding of its name that lists the key, with the first of
\* its methods that does, and they are in the order in which the traversal
\* first met them.
C7_FindingOncePerKey ==
  indexed =>
    LET attackPaths == attackPathsData.attack_paths
        R == registrations(attackPaths, "true")
        firstAt(fullKey, scenarioName) ==
          Least(registrationsAt(R, attackPaths, fullKey, scenarioName))
    IN /\ \A k \in 1..Len(R) :
            Cardinality(recordedAt(fullKeyOf(R[k].tactic, R[k].key),
                                   attackPaths[R[k].f].scenario_name)) = 1
       /\ \A fullKey \in DOMAIN findingsByTechnique :
            LET findings == findingsByTechnique[fullKey]
            IN \A j \in 1..Len(findings) :
                 /\ registrationsAt(R, attackPaths, fullKey,
                                    findings[j].scenario_name) # {}
                 /\ LET k == firstAt(fullKey, findings[j].scenario_name)
                    IN findings[j] = [method |-> R[k].method] @@ attackPaths[R[k].f]
                 /\ \A later \in (j + 1)..Len(findings) :
                      /\ findings[j].scenario_name # findings[later].scenario_name
                      /\ firstAt(fullKey, findings[j].scenario_name)
                           < firstAt(fullKey, findings[later].scenario_name)

\* C7 witness: two methods of one finding list the same key under the same
\* tactic, and the list under that key holds the finding once.
C7_Witness ==
  /\ indexed
  /\ LET attackPaths == attackPathsData.attack_paths
         R == registrations(attackPaths, "true")
     IN \E k1, k2 \in 1..Len(R) :
          /\ R[k1].f = R[k2].f
          /\ R[k1].m # R[k2].m
          /\ R[k1].tactic = R[k2].tactic
          /\ R[k1].key = R[k2].key
          /\ Len(findingsByTechnique[fullKeyOf(R[k1].tactic, R[k1].key)]) = 1

\* C8: under every tactic of TechniqueIndex every entry (key, technique) has
\* key = technique.stix_id when the technique has one, else technique.name; it
\* is the technique that the traversal registered first under that key (a map
\* has one entry per key); every technique the traversal goes through is
\* registered; and the key the matrix computes from the stored technique when
\* it renders the cell is the key the technique is stored under.
C8_TechniqueKeys ==
  indexed =>
    LET R == registrations(attackPathsData.attack_paths, "true")
        registeredAt(tactic, key) ==
          {k \in 1..Len(R) : R[k].tactic = tactic /\ R[k].key = key}
    IN /\ \A tactic \in DOMAIN techniquesByTactic :
            \A key \in DOMAIN techniquesByTactic[tactic] :
              LET technique == techniquesByTactic[tactic][key]
              IN /\ key = resolvedKey(technique)
                 /\ techniqueKeyOf(technique) = key
                 /\ registeredAt(tactic, key) # {}
                 /\ technique = R[Least(registeredAt(tactic, key))].technique
       /\ \A k \in 1..Len(R) : registeredUnder(R[k].tactic, R[k].key)

\* C8 witness: two different techniques were registered under one key of one
\* tactic, and the index holds the first.
C8_Witness ==
  /\ indexed
  /\ LET R == registrations(attackPathsData.attack_paths, "true")
     IN \E k1, k2 \in 1..Len(R) :
          /\ k1 < k2
          /\ R[k1].tactic = R[k2].tactic
          /\ R[k1].key = R[k2].key
          /\ R[k1].technique # R[k2].technique
          /\ \A k \in 1..(k1 - 1) :
               ~(R[k].tactic = R[k1].tactic /\ R[k].key = R[k1].key)
          /\ techniquesByTactic[R[k1].tactic][R[k1].key] = R[k1].technique

\* The vectors with can_achieve true of a document, stage by stage in the order
\* of the tactics: <<stage, vector>>.
achievableVectors(doc) ==
  FoldLeft(LAMBDA acc, section :
             LET achievable == SelectSeq(vectorsOf(doc, section[2]), flagTrue)
             IN acc \o [k \in 1..Len(achievable) |->
                          [stage |-> section[1], vector |-> achievable[k]]],
           << >>, TacticSections)

\* The finding is the Finding of the vector of that stage.
findingOfVector(finding, stage, vector) ==
  /\ finding.scenario_name = vector.technique_name
  /\ Len(finding.adversarial_methods) = 1
  /\ finding.adversarial_methods[1].tactic_name = stage
  /\ Len(finding.adversarial_methods[1].selected_techniques) = 1
  /\ LET technique == finding.adversarial_methods[1].selected_techniques[1]
     IN /\ technique.name = vector.technique_name
        /\ Has(technique, "stix_id") <=> Has(vector, "technique_stix_id")
        /\ Has(technique, "stix_id") => technique.stix_id = vector.technique_stix_id

\* '<stage>::<stix_id, else name>' of a vector.
vectorKey(stage, vector) ==
  stage \o "::" \o (IF Has(vector, "technique_stix_id") /\ vector.technique_stix_id # ""
                    THEN vector.technique_stix_id
                    ELSE vector.technique_name)

\* The finding is in the list under fullKey.
recordedUnder(fullKey, finding) ==
  /\ MapHas(findingsByTechnique, fullKey)
  /\ \E j \in 1..Len(findingsByTechnique[fullKey]) :
       findingsByTechnique[fullKey][j] = finding

\* The document of the claim's example: one achievable Initial Access vector
\* T1566 / Phishing, every other tactic empty.
PhishingOnly == ComprehensiveDoc("b", << Phishing >>, << >>)

\* The findings are those of the document's vectors with can_achieve true, one
\* each and in their order; and the example gives one Finding named Phishing
\* and a list of length 1 under 'Initial Access::T1566'.
oneFindingPerVector(doc, attackPaths) ==
  /\ Len(attackPaths) = Len(achievableVectors(doc))
  /\ \A j \in 1..Len(attackPaths) :
       findingOfVector(attackPaths[j], achievableVectors(doc)[j].stage,
                       achievableVectors(doc)[j].vector)
  /\ doc = PhishingOnly =>
       /\ Len(attackPaths) = 1
       /\ attackPaths[1].scenario_name = "Phishing"
       /\ Len(findingsFor("Initial Access", "T1566")) = 1

\* C9 as stated: loadAttackPathsData yields exactly one Finding per vector with
\* can_achieve true, named by the vector's technique_name, with one method of
\* the stage and its one technique, and the index build records every one of
\* these findings under '<stage>::<stix_id, else name>'.
C9_EveryFindingRecorded ==
  indexed =>
    LET doc == server[appName].value.fields
        attackPaths == attackPathsData.attack_paths
    IN /\ oneFindingPerVector(doc, attackPaths)
       /\ \A j \in 1..Len(attackPaths) :
            recordedUnder(vectorKey(achievableVectors(doc)[j].stage,
                                    achievableVectors(doc)[j].vector),
                          attackPaths[j])

\* C9, corrected: loadAttackPathsData yields exactly one Finding per vector with
\* can_achieve true, named by the vector's technique_name, with one method of
\* the stage and its one technique; the index build records it under
\* '<stage>::<stix_id, else name>' unless an earlier Finding of the same
\* scenario_name is recorded under that key, and then it records nothing for it.
C9_FindingRecordedUnlessNamesake ==
  indexed =>
    LET doc == server[appName].value.fields
        attackPaths == attackPathsData.attack_paths
    IN /\ oneFindingPerVector(doc, attackPaths)
       /\ \A j \in 1..Len(attackPaths) :
            LET fullKey == vectorKey(achievableVectors(doc)[j].stage,
                                     achievableVectors(doc)[j].vector)
                namesakes ==
                  {earlier \in 1..(j - 1) :
                     /\ attackPaths[earlier].scenario_name = attackPaths[j].scenario_name
                     /\ recordedUnder(fullKey, attackPaths[earlier])}
            IN /\ Cardinality(recordedAt(fullKey, attackPaths[j].scenario_name)) = 1
               /\ IF namesakes = {}
                  THEN recordedUnder(fullKey, attackPaths[j])
                  ELSE \A pos \in recordedAt(fullKey, attackPaths[j].scenario_name) :
                         \E earlier \in namesakes :
                           findingsByTechnique[fullKey][pos] = attackPaths[earlier]

\* C9 witness: a document is loaded and indexed that has two achievable vectors
\* of one stage with the same technique_name and stix_id and different steps;
\* the Finding of the first is recorded under their key, that of the second is
\* not.
C9_Witness ==
  /\ indexed
  /\ LET doc == server[appName].value.fields
         attackPaths == attackPathsData.attack_paths
     IN \E j1, j2 \in 1..Len(attackPaths) :
          /\ j1 < j2
          /\ attackPaths[j1].scenario_name = attackPaths[j2].scenario_name
          /\ vectorKey(achievableVectors(doc)[j1].stage,
                       achievableVectors(doc)[j1].vector)
               = vectorKey(achievableVectors(doc)[j2].stage,
                           achievableVectors(doc)[j2].vector)
          /\ recordedUnder(vectorKey(achievableVectors(doc)[j1].stage,
                                     achievableVectors(doc)[j1].vector),
                           attackPaths[j1])
          /\ ~recordedUnder(vectorKey(achievableVectors(doc)[j2].stage,
                                      achievableVectors(doc)[j2].vector),
                            attackPaths[j2])

\* The dataset of the claim's example: a method {tactic_name: Execution} with no
\* selected_techniques and no achievability flag, in a Finding with the one
\* step {Execution, 'T1059 - Command Interpreter'}.
CommandInterpreterOnly ==
  << TypedFinding("S1", << StepCommand >>, << Method("Execution", "absent", << >>) >>) >>

\* C10: for a method with no selected_techniques (and can_achieve not false) the
\* index build registers, under the method's tactic, every technique named by a
\* ';'-segment with a T####[.###] id of the steps of that tactic, keyed
\* 'attack-pattern--' + the id in lower case with dashes for dots; and the
\* example yields one technique under Execution, keyed attack-pattern--t1059
\* and named 'Command Interpreter'.
C10_StepTechniquesRegistered ==
  indexed =>
    LET attackPaths == attackPathsData.attack_paths
        R == registrations(attackPaths, "not false")
    IN /\ \A k \in 1..Len(R) :
            ~Has(R[k].method, "selected_techniques") =>
              registeredUnder(R[k].tactic, R[k].key)
       /\ attackPaths = CommandInterpreterOnly =>
            /\ DOMAIN techniquesByTactic = {"Execution"}
            /\ DOMAIN techniquesByTactic["Execution"] = {"attack-pattern--t1059"}
            /\ techniquesByTactic["Execution"]["attack-pattern--t1059"].name
                 = "Command Interpreter"

----------------------------------------------------------------------------
(* Claims about getTechniqueSpecificInfo *)

\* The technique id the call looks for: that of the key, else that of the name.
targetId(call) ==
  IF extractTechniqueIdFromKey(call.techniqueKey) # NoMatch
  THEN extractTechniqueIdFromKey(call.techniqueKey)
  ELSE extractTechniqueIdFromKey(call.techniqueName)

\* The four digits after the T of a technique id.
fourDigits(id) == SubSeq(id, 2, 5)

\* The step is of the method's tactic and names an id with the digits of id.
taggedLike(method, step, id) ==
  /\ toLowerCase(step.step_mitre_tactic) = toLowerCase(method.tactic_name)
  /\ \E k \in 1..Len(allTechniqueIds(step.step_mitre_technique)) :
       fourDigits(allTechniqueIds(step.step_mitre_technique)[k]) = fourDigits(id)

\* The ids a call meets: its target and those of the steps of its finding.
idsOf(call) ==
  (IF targetId(call) = NoMatch THEN {} ELSE {toUpperCase(targetId(call))})
    \cup UNION {{toUpperCase(allTechniqueIds(step.step_mitre_technique)[k]) :
                   k \in 1..Len(allTechniqueIds(step.step_mitre_technique))} :
                step \in {attackFlowOf(call.finding)[j] :
                            j \in 1..Len(attackFlowOf(call.finding))}}

\* The method is gone through by the loop: the tactic filter lets it pass.
passesFilter(call, method) ==
  \/ call.tacticName = ""
  \/ toLowerCase(method.tactic_name) = toLowerCase(call.tacticName)

\* C11: in the step matching for a method without selected_techniques a
\* sub-technique id and its parent match, either way round: the steps returned
\* are the steps of the method's tactic that name an id with the four digits of
\* the target, so a target T1098 gets the steps tagged T1098.003 and a target
\* T1098.003 those tagged T1098; such a method resolves whenever there is such a
\* step; and on the ids met the match relation is symmetric and holds exactly
\* when the four digits are equal.
C11_SubTechniqueMatchesParent ==
  (resolution # Null /\ resolution.returned) =>
    LET call == resolution
        info == call.info
        attackFlow == attackFlowOf(call.finding)
    IN /\ \A id1, id2 \in idsOf(call) :
            /\ techniqueIdsMatch(id1, id2) <=> fourDigits(id1) = fourDigits(id2)
            /\ techniqueIdsMatch(id1, id2) <=> techniqueIdsMatch(id2, id1)
       /\ (info # Null /\ ~Has(info.method, "selected_techniques")) =>
            /\ targetId(call) # NoMatch
            /\ info.methodSteps =
                 SelectSeq(attackFlow,
                           LAMBDA step : taggedLike(info.method, step, targetId(call)))
            /\ info.methodSteps # << >>
       /\ (/\ Has(call.finding, "adversarial_methods")
           /\ targetId(call) # NoMatch
           /\ \E k \in 1..Len(call.finding.adversarial_methods) :
                LET method == call.finding.adversarial_methods[k]
                IN /\ ~Has(method, "selected_techniques")
                   /\ passesFilter(call, method)
                   /\ \E j \in 1..Len(attackFlow) :
                        taggedLike(method, attackFlow[j], targetId(call)))
            => info # Null

\* C11 witness: the target is T1098.003 and the call returned, for a method
\* without selected_techniques, a step tagged with the parent t1098 only; and
\* the step tagged T1098.003 is returned with it.
C11_Witness ==
  /\ resolution # Null
  /\ resolution.returned
  /\ resolution.techniqueKey = "T1098.003"
  /\ resolution.info # Null
  /\ ~Has(resolution.info.method, "selected_techniques")
  /\ resolution.info.methodSteps = << StepManipulate, StepRoles >>

\* The method lists the target: among its selected_techniques, or, when it has
\* none, among the techniques that the steps of its tactic name.
listsTarget(call, method) ==
  IF Has(method, "selected_techniques")
  THEN \E k \in 1..Len(method.selected_techniques) :
         resolvedKey(method.selected_techniques[k]) = call.techniqueKey
  ELSE /\ targetId(call) # NoMatch
       /\ \E j \in 1..Len(attackFlowOf(call.finding)) :
            taggedLike(method, attackFlowOf(call.finding)[j], targetId(call))

\* C12: getTechniqueSpecificInfo returns, and what it returns is null for a
\* Finding without adversarial_methods and for a technique key that none of
\* the Finding's methods lists.
C12_UnlistedKeyResolvesToNull ==
  (resolution # Null /\ resolution.returned) =>
    /\ ~Has(resolution.finding, "adversarial_methods") => resolution.info = Null
    /\ (/\ Has(resolution.finding, "adversarial_methods")
        /\ \A k \in 1..Len(resolution.finding.adversarial_methods) :
             ~listsTarget(resolution, resolution.finding.adversarial_methods[k]))
         => resolution.info = Null

----------------------------------------------------------------------------
(* Claims about what loadAttackPathsData returns *)

\* The places <<section, position>> of the vectors with can_achieve true.
achievablePlaces(doc) ==
  UNION {{<< s, v >> : v \in {v \in 1..Len(vectorsOf(doc, TacticSections[s][2])) :
                                flagTrue(vectorsOf(doc, TacticSections[s][2])[v])}} :
         s \in 1..Len(TacticSections)}

attackPathsUrl(app) == "data/attack_paths/" \o app \o "_attack_paths.json"

initialAccessUrl(app) == "data/initial_access/" \o app \o "_initial_access_vectors.json"

\* C14: when the comprehensive file of an application is missing or fails the
\* validation, the loader goes on to the next shape, the attack-paths document
\* and then the initial-access vectors, and the load fails only after every
\* shape has been tried: a failed load has requested the three files in that
\* order.
C14_FailsAfterEveryShape ==
  \A i \in 1..Len(loads) :
    loads[i].outcome = "failed" =>
      \E c, p, q \in 1..Len(loads[i].fetched) :
        /\ c < p
        /\ p < q
        /\ loads[i].fetched[c] = comprehensiveUrl(loads[i].app)
        /\ loads[i].fetched[p] = attackPathsUrl(loads[i].app)
        /\ loads[i].fetched[q] = initialAccessUrl(loads[i].app)

----------------------------------------------------------------------------
(* AttackPaths: the technique view and the path visualization *)

\* findingToUse = selectedFindingForTechnique || findings[0], of the technique
\* view.
findingToUse ==
  IF selectedFindingForTechnique # Null THEN selectedFindingForTechnique
  ELSE IF findingsFor(selectedTechnique.tactic, selectedTechnique.techniqueKey) # << >>
  THEN findingsFor(selectedTechnique.tactic, selectedTechnique.techniqueKey)[1]
  ELSE Null

techniqueInfoByName(selected, finding) ==
  getTechniqueSpecificInfo(finding, selected.technique.name, selected.technique.name,
                           selected.tactic)

\* techniqueInfo of the technique view, for the finding it shows.
techniqueInfo(selected, finding) ==
  getTechniqueSpecificInfo(finding, selected.techniqueKey, selected.technique.name,
                           selected.tactic)

\* The "View in Attack Path" button of the technique view: the JSX expression
\* that holds it is a comment, so the view renders no such button.
viewInContextButton == FALSE

handleViewInContext(finding) ==
  /\ pathVisualizationFinding' = finding
  /\ view' = "path-visualization"

\* A click on "View in Attack Path".
ViewInContext ==
  /\ ~autoSelectDue
  /\ Screen = "technique"
  /\ findingToUse # Null
  /\ viewInContextButton
  /\ handleViewInContext(findingToUse)
  /\ UNCHANGED << outside, server, appName, loads, dataVars, selectedTechnique,
                  selectedFinding, selectedFindingForTechnique >>

\* str.match(/T\d{4}(\.\d{3})?/g) || [] from position i on.
RECURSIVE stepTechniqueIdsFrom(_, _)
stepTechniqueIdsFrom(str, i) ==
  IF i > Len(str) THEN << >>
  ELSE IF IdLenAt(str, i) > 0
       THEN << SubSeq(str, i, i + IdLenAt(str, i) - 1) >>
              \o stepTechniqueIdsFrom(str, i + IdLenAt(str, i))
       ELSE stepTechniqueIdsFrom(str, i + 1)

\* The entries of techniquesByTactic.get(tactic) in the order of the Map, which
\* is the order in which the index build first set each key.
tacticEntries(tactic) ==
  LET R == registrations(attackPathsData.attack_paths, "true")
      first == SelectSeq([k \in 1..Len(R) |-> k],
                         LAMBDA k : /\ R[k].tactic = tactic
                                    /\ \A j \in 1..(k - 1) :
                                         ~(R[j].tactic = tactic /\ R[j].key = R[k].key))
  IN [n \in 1..Len(first) |->
        [techniqueKey |-> R[first[n]].key,
         technique |-> techniquesByTactic[tactic][R[first[n]].key]]]

\* The technique's name is in the step's text.
nameInStep(technique, stepTechniqueStr) ==
  /\ technique.name # ""
  /\ includes(stepTechniqueStr, toLowerCase(technique.name))

\* Case 1 of findTechniqueFromStep: the first of the method's techniques whose
\* id is among the step's ids or whose name is in the step's text, else the
\* first technique.
techniqueOfMethod(matchingMethod, stepTechniqueIds, stepTechniqueStr) ==
  LET selected == matchingMethod.selected_techniques
      matches(technique) ==
        \/ /\ Has(technique, "stix_id")
           /\ extractTechniqueId(technique.stix_id) # NoMatch
           /\ \E k \in 1..Len(stepTechniqueIds) :
                toUpperCase(stepTechniqueIds[k])
                  = toUpperCase(extractTechniqueId(technique.stix_id))
        \/ nameInStep(technique, stepTechniqueStr)
      hits == SelectSeq(selected, matches)
      technique == IF hits # << >> THEN hits[1] ELSE selected[1]
  IN [tactic |-> matchingMethod.tactic_name,
      techniqueKey |-> techniqueKeyOf(technique),
      technique |-> technique]

\* Case 2 of findTechniqueFromStep: the first entry of the tactic whose id has
\* the base of one of the step's ids, else the first whose name is in the
\* step's text, else the first entry.
techniqueOfTactic(tacticName, stepTechniqueIds, stepTechniqueStr) ==
  LET entries == tacticEntries(tacticName)
      idOf(technique) == firstTechniqueId(techniqueKeyOf(technique))
      byId == SelectSeq(entries,
                        LAMBDA e : /\ idOf(e.technique) # NoMatch
                                   /\ \E k \in 1..Len(stepTechniqueIds) :
                                        beforeDot(toUpperCase(stepTechniqueIds[k]))
                                          = beforeDot(toUpperCase(idOf(e.technique))))
      byName == SelectSeq(entries, LAMBDA e : nameInStep(e.technique, stepTechniqueStr))
      entry == IF byId # << >> THEN byId[1]
               ELSE IF byName # << >> THEN byName[1]
               ELSE entries[1]
  IN IF entries = << >> THEN Null
     ELSE [tactic |-> tacticName, techniqueKey |-> entry.techniqueKey,
           technique |-> entry.technique]

\* findTechniqueFromStep of PathVisualization, with the techniquesByTactic that
\* AttackPaths passes.
findTechniqueFromStep(finding, step) ==
  IF ~Has(finding, "adversarial_methods") THEN Null
  ELSE LET matching == SelectSeq(finding.adversarial_methods,
                                 LAMBDA method :
                                   method.tactic_name = step.step_mitre_tactic)
           stepTechniqueIds == stepTechniqueIdsFrom(step.step_mitre_technique, 1)
           stepTechniqueStr == toLowerCase(step.step_mitre_technique)
       IN IF matching = << >> THEN Null
          ELSE IF /\ Has(matching[1], "selected_techniques")
                  /\ matching[1].selected_techniques # << >>
          THEN techniqueOfMethod(matching[1], stepTechniqueIds, stepTechniqueStr)
          ELSE IF /\ MapHas(techniquesByTactic, step.step_mitre_tactic)
                  /\ stepTechniqueIds # << >>
          THEN techniqueOfTactic(step.step_mitre_tactic, stepTechniqueIds,
                                 stepTechniqueStr)
          ELSE Null

\* onTechniqueClick, as AttackPaths passes it to PathVisualization.
onTechniqueClick(technique) ==
  /\ selectedTechnique' = technique
  /\ view' = "technique"
  /\ pathVisualizationFinding' = Null

\* onNodeClick: a click on the node of the k-th step of the finding shown.
StepNodeClick(k) ==
  /\ ~autoSelectDue
  /\ Screen = "path-visualization"
  /\ k \in 1..Len(attackFlowOf(pathVisualizationFinding))
  /\ LET technique == findTechniqueFromStep(pathVisualizationFinding,
                                            attackFlowOf(pathVisualizationFinding)[k])
     IN IF technique # Null
        THEN /\ onTechniqueClick(technique)
             /\ UNCHANGED << selectedFinding, selectedFindingForTechnique >>
        ELSE UNCHANGED navVars
  /\ UNCHANGED << outside, server, appName, loads, dataVars >>

\* C17: from the technique view a "view in context" action is available that
\* moves the view to path-visualization with pathVisualizationFinding = the
\* finding currently selected, which makes path-visualization reachable by user
\* events: whenever the technique view shows a finding, the action can be
\* taken, and taking it has that effect.
C17_ViewInContextAvailable ==
  /\ [](( /\ Screen = "technique"
          /\ ~autoSelectDue
          /\ findingToUse # Null ) => ENABLED ViewInContext)
  /\ [][ViewInContext =>
          /\ view' = "path-visualization"
          /\ pathVisualizationFinding' = findingToUse]_vars

----------------------------------------------------------------------------
(* Claims about the navigation *)

\* C15: the view is matrix at first; from matrix the only view entered next is
\* technique; and finding and path-visualization are entered from technique
\* only, whatever the navigation events.
C15_NoSkipAhead ==
  /\ view = "matrix"
  /\ [][(view = "matrix" /\ view' # "matrix") => view' = "technique"]_vars
  /\ [][(view' \in {"finding", "path-visualization"} /\ view' # view) =>
          view = "technique"]_vars

\* C15 witness: the technique view has been entered from the matrix; no
\* finding view and no path visualization is open.
C15_Witness ==
  /\ view = "technique"
  /\ Screen = "technique"
  /\ selectedFinding = Null
  /\ pathVisualizationFinding = Null

\* A click on a finding of the side list, or on a technique cell.
userPicks ==
  \/ \E k \in 1..Len(IF selectedTechnique = Null THEN << >>
                     ELSE findingsFor(selectedTechnique.tactic,
                                      selectedTechnique.techniqueKey)) :
       FindingClick(k)
  \/ \E tactic \in visibleTactics :
       \E key \in DOMAIN techniquesByTactic[tactic] : TechniqueClick(tactic, key)

\* C20: a click on the technique cell (tactic, key, technique) of the matrix
\* moves to technique with selectedTechnique = {tactic, key, technique} and
\* selectedFindingForTechnique null; when FindingIndex has a finding under
\* '<tactic>::<key>', the first finding of that list gets selected; and a
\* finding that is selected stays so until the user picks a finding or a
\* technique.
C20_FirstFindingAutoSelected ==
  /\ [][\A tactic \in visibleTactics :
          \A key \in DOMAIN techniquesByTactic[tactic] :
            TechniqueClick(tactic, key) =>
              /\ view' = "technique"
              /\ selectedTechnique' =
                   [tactic |-> tactic, techniqueKey |-> key,
                    technique |-> techniquesByTactic[tactic][key]]
              /\ selectedFindingForTechnique' = Null]_vars
  /\ autoSelectDue ~>
       ( /\ selectedTechnique # Null
         /\ findingsFor(selectedTechnique.tactic, selectedTechnique.techniqueKey) # << >>
         /\ selectedFindingForTechnique =
              findingsFor(selectedTechnique.tactic, selectedTechnique.techniqueKey)[1] )
  /\ [][(selectedFindingForTechnique # Null
           /\ selectedFindingForTechnique' # selectedFindingForTechnique) =>
          userPicks]_vars

\* C20 witness: the technique view shows a technique with two findings or more,
\* and the first of them is the one selected.
C20_Witness ==
  /\ Screen = "technique"
  /\ Len(findingsFor(selectedTechnique.tactic, selectedTechnique.techniqueKey)) >= 2
  /\ selectedFindingForTechnique =
       findingsFor(selectedTechnique.tactic, selectedTechnique.techniqueKey)[1]

----------------------------------------------------------------------------
(* ApplicationBreakdown: state and load effect *)

\* What data/breakdowns/<app>_app_breakdown.json holds, and what an
\* infrastructure analysis of the application is.
BreakdownOf(app) == [application_name |-> app]

InfrastructureOf(app) == [infrastructure_name |-> app]

\* A loadData call of ApplicationBreakdown: at the fetch of the breakdown, then
\* at loadInfrastructureAnalysisData, then at loadComprehensiveAnalysisData,
\* then done.
NewBreakdownLoad(app) == [app |-> app, pc |-> "breakdown", outcome |-> "pending"]

\* useState initial values, and the mount run of the load effect with its
\* setLoading(true).
MountedBreakdown(app) ==
  [appName |-> app,
   loads |-> << NewBreakdownLoad(app) >>,
   breakdownData |-> Null,
   infrastructureData |-> Null,
   hasComprehensiveData |-> FALSE,
   loading |-> TRUE,
   error |-> Null,
   activeSection |-> "app_breakdown"]

\* The route /app/:appName shows another application: the component stays
\* mounted and the load effect runs again.
BreakdownChangeAppName(app) ==
  /\ breakdown # Null
  /\ app # breakdown.appName
  /\ Len(breakdown.loads) < MaxLoads
  /\ breakdown' = [breakdown EXCEPT !.appName = app,
                                    !.loads = Append(@, NewBreakdownLoad(app)),
                                    !.loading = TRUE]
  /\ UNCHANGED << server, appName, loads, dataVars, navVars, graph, resolution >>

\* The fetch of the breakdown returns a document in call i.
BreakdownReturns(i) ==
  /\ breakdown # Null
  /\ i \in 1..Len(breakdown.loads)
  /\ breakdown.loads[i].pc = "breakdown"
  /\ breakdown' = [breakdown EXCEPT !.breakdownData = BreakdownOf(breakdown.loads[i].app),
                                    !.loads[i].pc = "infrastructure"]
  /\ UNCHANGED << server, appName, loads, dataVars, navVars, graph, resolution >>

\* The response of the fetch of the breakdown is not ok in call i: the catch
\* block and the finally block.
BreakdownFails(i) ==
  /\ breakdown # Null
  /\ i \in 1..Len(breakdown.loads)
  /\ breakdown.loads[i].pc = "breakdown"
  /\ breakdown' = [breakdown EXCEPT !.error = [message |-> "Failed to load breakdown data"],
                                    !.loading = FALSE,
                                    !.loads[i].pc = "done",
                                    !.loads[i].outcome = "failed"]
  /\ UNCHANGED << server, appName, loads, dataVars, navVars, graph, resolution >>

\* await loadInfrastructureAnalysisData(baseUrl, appName) returns infraData in
\* call i: an analysis of the application, or null when it has none.
InfrastructureReturns(i, infraData) ==
  /\ breakdown # Null
  /\ i \in 1..Len(breakdown.loads)
  /\ breakdown.loads[i].pc = "infrastructure"
  /\ infraData \in {Null, InfrastructureOf(breakdown.loads[i].app)}
  /\ breakdown' = [breakdown EXCEPT !.infrastructureData =
                                       IF infraData # Null THEN infraData ELSE @,
                                    !.loads[i].pc = "comprehensive"]
  /\ UNCHANGED << server, appName, loads, dataVars, navVars, graph, resolution >>

\* await loadComprehensiveAnalysisData(baseUrl, appName) returns in call i: the
\* rest of the try block, and the finally block.
BreakdownLoadEnds(i, fetchRejected) ==
  /\ breakdown # Null
  /\ i \in 1..Len(breakdown.loads)
  /\ breakdown.loads[i].pc = "comprehensive"
  /\ \E comprehensiveData \in
          {loadComprehensiveAnalysisData(fetchRejected, server[breakdown.loads[i].app])} :
       breakdown' = [breakdown EXCEPT !.hasComprehensiveData = (comprehensiveData # Null),
                                      !.activeSection =
                                         IF comprehensiveData # Null THEN "attack_paths"
                                         ELSE "app_breakdown",
                                      !.error = Null,
                                      !.loading = FALSE,
                                      !.loads[i].pc = "done",
                                      !.loads[i].outcome = "loaded"]
  /\ UNCHANGED << server, appName, loads, dataVars, navVars, graph, resolution >>

\* mainSections: the tabs of the page.
mainSections ==
  (IF breakdown.hasComprehensiveData THEN {"attack_paths"} ELSE {})
    \cup {"app_breakdown"}
    \cup (IF breakdown.infrastructureData # Null THEN {"infra_breakdown"} ELSE {})

\* A click on a tab of the page, which is there when the component is neither
\* loading nor showing an error.
SectionClick(section) ==
  /\ breakdown # Null
  /\ ~breakdown.loading
  /\ breakdown.error = Null
  /\ breakdown.breakdownData # Null
  /\ section \in mainSections
  /\ section # breakdown.activeSection
  /\ breakdown' = [breakdown EXCEPT !.activeSection = section]
  /\ UNCHANGED << server, appName, loads, dataVars, navVars, graph, resolution >>

InitBreakdown ==
  /\ server \in {[app \in Apps |-> IF app = "a" THEN FileA ELSE fb] : fb \in FilesB}
  /\ \E app \in Apps :
       /\ InitState(app)
       /\ breakdown = MountedBreakdown(app)
  /\ graph = Null
  /\ resolution = Null

NextBreakdown ==
  \/ \E app \in Apps : BreakdownChangeAppName(app)
  \/ \E i \in 1..Len(breakdown.loads) : BreakdownReturns(i)
  \/ \E i \in 1..Len(breakdown.loads) : BreakdownFails(i)
  \/ \E i \in 1..Len(breakdown.loads) :
       \E infraData \in {Null, InfrastructureOf(breakdown.loads[i].app)} :
         InfrastructureReturns(i, infraData)
  \/ \E i \in 1..Len(breakdown.loads) : \E r \in BOOLEAN : BreakdownLoadEnds(i, r)
  \/ \E section \in mainSections : SectionClick(section)

SpecBreakdown == InitBreakdown /\ [][NextBreakdown]_vars

\* Every loadData call of ApplicationBreakdown has ended, and the one of the
\* application shown has loaded it.
breakdownLoaded ==
  /\ breakdown # Null
  /\ \A i \in 1..Len(breakdown.loads) : breakdown.loads[i].pc = "done"
  /\ breakdown.loads[Len(breakdown.loads)].outcome = "loaded"

\* C18: when the application name has changed from A to B and B's load is
\* complete, no state derived from A remains: the breakdown data, the
\* infrastructure data and the comprehensive-data flag of ApplicationBreakdown
\* are those of B, or empty; if B has no infrastructure analysis,
\* infrastructureData is null.
C18_NothingOfAnotherApplication ==
  breakdownLoaded =>
    /\ breakdown.breakdownData = BreakdownOf(breakdown.appName)
    /\ breakdown.infrastructureData \in {Null, InfrastructureOf(breakdown.appName)}
    /\ breakdown.hasComprehensiveData =>
         loadComprehensiveAnalysisData(FALSE, server[breakdown.appName]) # Null

----------------------------------------------------------------------------
(* PathVisualization: the layout of the graph *)

\* The most steps in the attack flow of a finding that is drawn as a graph.
MaxFlowLen == 3

StepExfiltrate ==
  [step_name |-> "Step 3", step_description |-> "Copy the data out",
   step_mitre_tactic |-> "Exfiltration",
   step_mitre_technique |-> "T1567 - Exfiltration Over Web Service"]

GraphSteps == {StepRoles, StepManipulate, StepCommand, StepExfiltrate}

\* The values of the finding prop: findings with a flow of up to MaxFlowLen
\* steps, with and without adversarial methods, a finding without hypothesis,
\* and null.
GraphFindings ==
  {TypedFinding("S1", attackFlow, methods) :
     attackFlow \in UNION {[1..n -> GraphSteps] : n \in 0..MaxFlowLen},
     methods \in {<< >>, << Method("Persistence", "true", << >>) >>}}
    \cup {[scenario_name |-> "S2"], Null}

\* attackFlow = finding?.hypothesis?.attack_flow_hypothesis || []
attackFlowOfProp(finding) ==
  IF finding = Null THEN << >> ELSE attackFlowOf(finding)

\* initialNodes: one node per step, index counted from 0.
initialNodes(attackFlow) ==
  [n \in 1..Len(attackFlow) |->
     [id |-> "step-" \o ToString(n - 1),
      position |-> [x |-> 50 + 350 * (n - 1), y |-> 100],
      stepData |-> attackFlow[n]]]

\* initialEdges whose loop runs up to attackFlow.length.
initialEdgesToEnd(attackFlow) ==
  [n \in 1..Len(attackFlow) |->
     [id |-> "step-" \o ToString(n - 1) \o "-to-step-" \o ToString(n),
      source |-> "step-" \o ToString(n - 1),
      target |-> "step-" \o ToString(n)]]

\* initialEdges: for (let i = 0; i < attackFlow.length - 1; i++).
initialEdges(attackFlow) ==
  [n \in 1..(Len(attackFlow) - 1) |->
     [id |-> "step-" \o ToString(n - 1) \o "-to-step-" \o ToString(n),
      source |-> "step-" \o ToString(n - 1),
      target |-> "step-" \o ToString(n)]]

\* The component with its two memoized values for the finding it is given.
Drawn(finding) ==
  [finding |-> finding,
   initialNodes |-> initialNodes(attackFlowOfProp(finding)),
   initialEdges |-> initialEdges(attackFlowOfProp(finding))]

\* The parent passes another finding: both memos are computed anew.
ShowFinding(finding) ==
  /\ graph # Null
  /\ finding # graph.finding
  /\ graph' = Drawn(finding)
  /\ UNCHANGED << server, appName, loads, dataVars, navVars, breakdown, resolution >>

InitGraph ==
  /\ server = [app \in Apps |-> FileA]
  /\ InitState("a")
  /\ breakdown = Null
  /\ resolution = Null
  /\ \E finding \in GraphFindings : graph = Drawn(finding)

NextGraph == \E finding \in GraphFindings : ShowFinding(finding)

SpecGraph == InitGraph /\ [][NextGraph]_vars

\* C19: for an attack flow of n steps the layout has n nodes step-0 ..
\* step-(n-1), node i at x = 50 + 350*i and all at one y, and max(n-1, 0)
\* edges, edge i from step-i to step-(i+1): one linear chain, in which no node
\* has two outgoing or two incoming edges and every edge leads to the node
\* after its source.
C19_LayoutIsLinearChain ==
  graph # Null =>
    LET n == Len(attackFlowOfProp(graph.finding))
        nodes == graph.initialNodes
        edges == graph.initialEdges
        idOfStep(i) == "step-" \o ToString(i)
    IN /\ Len(nodes) = n
       /\ \A i \in 0..(n - 1) :
            /\ nodes[i + 1].id = idOfStep(i)
            /\ nodes[i + 1].position.x = 50 + 350 * i
            /\ nodes[i + 1].position.y = nodes[1].position.y
       /\ Len(edges) = (IF n >= 1 THEN n - 1 ELSE 0)
       /\ \A i \in 0..(Len(edges) - 1) :
            /\ edges[i + 1].source = idOfStep(i)
            /\ edges[i + 1].target = idOfStep(i + 1)
       /\ \A e \in 1..Len(edges) :
            /\ \E i, j \in 1..Len(nodes) :
                 /\ nodes[i].id = edges[e].source
                 /\ nodes[j].id = edges[e].target
                 /\ j = i + 1
            /\ \A other \in 1..Len(edges) :
                 (edges[other].source = edges[e].source
                    \/ edges[other].target = edges[e].target) => other = e

\* C19 witness: a flow of three steps is drawn, with three nodes, the last at
\* x = 750, and two edges.
C19_Witness ==
  /\ graph # Null
  /\ Len(graph.initialNodes) = 3
  /\ graph.initialNodes[3].position.x = 750
  /\ Len(graph.initialEdges) = 2

----------------------------------------------------------------------------
(* Claims about the back button and the side list *)

C22_SideListSelectsInPlace ==
  [][\A k \in 1..Len(IF selectedTechnique = Null THEN << >>
                     ELSE findingsFor(selectedTechnique.tactic,
                                      selectedTechnique.techniqueKey)) :
       FindingClick(k) =>
         /\ view = "technique"
         /\ selectedFindingForTechnique' =
              findingsFor(selectedTechnique.tactic,
                          selectedTechnique.techniqueKey)[k]
         /\ UNCHANGED << view, selectedTechnique, selectedFinding,
                         pathVisualizationFinding, techniquesByTactic,
                         findingsByTechnique >>]_vars

\* C22 witness: the second finding of the side list has been clicked and is
\* the one the technique view shows.
C22_Witness ==
  /\ Screen = "technique"
  /\ Len(findingsFor(selectedTechnique.tactic, selectedTechnique.techniqueKey)) >= 2
  /\ selectedFindingForTechnique =
       findingsFor(selectedTechnique.tactic, selectedTechnique.techniqueKey)[2]
  /\ selectedFinding = Null

----------------------------------------------------------------------------
(* Claims about the steps of a listed technique *)

\* The name the call matches steps against: techniqueName, else the name of
\* the listed technique, in lower case.
nameSought(call) ==
  toLowerCase(IF call.techniqueName # "" THEN call.techniqueName
              ELSE call.info.technique.name)

\* The step names the T#### id found in the name sought.
matchesById(call, step) ==
  /\ firstTechniqueId(nameSought(call)) # NoMatch
  /\ \E k \in 1..Len(allTechniqueIds(toLowerCase(step.step_mitre_technique))) :
       toUpperCase(allTechniqueIds(toLowerCase(step.step_mitre_technique))[k])
         = toUpperCase(firstTechniqueId(nameSought(call)))

\* The step's technique text contains a significant word of the name sought.
matchesByKeyword(call, step) ==
  \E k \in 1..Len(keyWords(nameSought(call))) :
    includes(toLowerCase(step.step_mitre_technique), keyWords(nameSought(call))[k])

\* How many methods of the finding are of the tactic, whatever the case.
methodsOfTactic(finding, tactic) ==
  Cardinality({k \in 1..Len(finding.adversarial_methods) :
                 /\ Has(finding.adversarial_methods[k], "tactic_name")
                 /\ toLowerCase(finding.adversarial_methods[k].tactic_name)
                      = toLowerCase(tactic)})

\* C23: when the call resolves a method whose selected_techniques contain the
\* target key, a step of the attack flow that matches neither by T#### id nor
\* by a significant word of the name is among the steps returned exactly when
\* its tactic is the method's, whatever the case, and the finding has exactly
\* one method of that tactic; with two or more methods of the tactic it is left
\* out.
C23_LastResortNeedsSingleMethod ==
  (/\ resolution # Null
   /\ resolution.returned
   /\ resolution.info # Null
   /\ Has(resolution.info.method, "selected_techniques")
   /\ \E k \in 1..Len(resolution.info.method.selected_techniques) :
        techniqueKeyOf(resolution.info.method.selected_techniques[k])
          = resolution.techniqueKey) =>
    LET call == resolution
        info == call.info
        attackFlow == attackFlowOf(call.finding)
    IN \A j \in 1..Len(attackFlow) :
         (~matchesById(call, attackFlow[j]) /\ ~matchesByKeyword(call, attackFlow[j])) =>
           ( (\E i \in 1..Len(info.methodSteps) : info.methodSteps[i] = attackFlow[j])
               <=> ( /\ toLowerCase(attackFlow[j].step_mitre_tactic)
                          = toLowerCase(info.method.tactic_name)
                     /\ methodsOfTactic(call.finding, info.method.tactic_name) = 1 ) )

\* C23 witness: the finding has two methods of the tactic Persistence, the first
\* lists the target T1098, and the one step of the flow, of that tactic and
\* matching neither by id nor by word, has been left out.
C23_Witness ==
  /\ resolution # Null
  /\ resolution.returned
  /\ resolution.techniqueKey = "T1098"
  /\ resolution.info # Null
  /\ resolution.info.technique = TAccount
  /\ methodsOfTactic(resolution.finding, "Persistence") = 2
  /\ attackFlowOf(resolution.finding) = << StepRoles >>
  /\ resolution.info.methodSteps = << >>

----------------------------------------------------------------------------
(* Claims about the steps the loader makes *)

\* '<stix_id><separator><name>' when the vector has both, else whichever it has.
joinedBy(vector, separator) ==
  IF Has(vector, "technique_stix_id") /\ vector.technique_stix_id # ""
       /\ vector.technique_name # ""
  THEN vector.technique_stix_id \o separator \o vector.technique_name
  ELSE IF Has(vector, "technique_stix_id") /\ vector.technique_stix_id # ""
       THEN vector.technique_stix_id
       ELSE vector.technique_name

\* C24: the Finding of a vector has an attack_flow_hypothesis of the length and
\* in the order of the vector's method_steps; step i has the stage name as
\* step_mitre_tactic, the description of method step i, or '', as
\* step_description, 'Step <step_id>' as step_name when the method step has a
\* step_id and 'Step <i>' otherwise, and '<stix_id> - <name>', the dash a hyphen
\* or an en dash, as step_mitre_technique when the vector has both, else
\* whichever it has; and the hypothesis starts and ends at the stage.
C24_FlowProjectsMethodSteps ==
  indexed =>
    LET doc == server[appName].value.fields
        attackPaths == attackPathsData.attack_paths
    IN /\ Len(attackPaths) = Len(achievableVectors(doc))
       /\ \A j \in 1..Len(attackPaths) :
            LET stage == achievableVectors(doc)[j].stage
                vector == achievableVectors(doc)[j].vector
                steps == IF Has(vector, "method_steps") THEN vector.method_steps
                         ELSE << >>
                hypothesis == attackPaths[j].hypothesis
                attackFlow == hypothesis.attack_flow_hypothesis
            IN /\ hypothesis.starting_tactic = stage
               /\ hypothesis.objective_tactic = stage
               /\ Len(attackFlow) = Len(steps)
               /\ \A i \in 1..Len(steps) :
                    /\ attackFlow[i].step_mitre_tactic = stage
                    /\ attackFlow[i].step_description =
                         (IF Has(steps[i], "description") THEN steps[i].description
                          ELSE "")
                    /\ attackFlow[i].step_name =
                         "Step " \o ToString(IF Has(steps[i], "step_id")
                                             THEN steps[i].step_id ELSE i)
                    /\ attackFlow[i].step_mitre_technique
                         \in {joinedBy(vector, " - "),
                              joinedBy(vector, " " \o EnDash \o " ")}

----------------------------------------------------------------------------
(* Claims about the two indices together *)

\* The pairs <<tactic, key>> of TechniqueIndex whose FindingIndex key is fullKey.
registeredAs(fullKey) ==
  {pair \in UNION {{<< tactic, key >> : key \in DOMAIN techniquesByTactic[tactic]} :
                     tactic \in DOMAIN techniquesByTactic} :
     fullKeyOf(pair[1], pair[2]) = fullKey}

\* C25: the two indices agree after every index build: FindingIndex has an
\* entry '<tactic>::<key>' exactly when TechniqueIndex[tactic] contains key,
\* every finding list is non-empty, and every stored finding carries as method
\* one of its own adversarial_methods, whose tactic_name is <tactic>.
C25_IndicesAgree ==
  /\ \A tactic \in DOMAIN techniquesByTactic :
       \A key \in DOMAIN techniquesByTactic[tactic] :
         MapHas(findingsByTechnique, fullKeyOf(tactic, key))
  /\ \A fullKey \in DOMAIN findingsByTechnique :
       /\ registeredAs(fullKey) # {}
       /\ findingsByTechnique[fullKey] # << >>
       /\ \A j \in 1..Len(findingsByTechnique[fullKey]) :
            LET entry == findingsByTechnique[fullKey][j]
            IN /\ \E m \in 1..Len(entry.adversarial_methods) :
                    entry.adversarial_methods[m] = entry.method
               /\ \A pair \in registeredAs(fullKey) :
                    entry.method.tactic_name = pair[1]

\* C25 witness: a dataset is indexed whose finding has two methods of different
\* tactics, and it is stored under a key of the second tactic with its second
\* method and under a key of the first tactic with its first.
C25_Witness ==
  /\ indexed
  /\ \E fullKey, otherKey \in DOMAIN findingsByTechnique :
       \E j \in 1..Len(findingsByTechnique[fullKey]) :
         \E i \in 1..Len(findingsByTechnique[otherKey]) :
           LET entry == findingsByTechnique[fullKey][j]
               other == findingsByTechnique[otherKey][i]
           IN /\ Len(entry.adversarial_methods) >= 2
              /\ entry.method = entry.adversarial_methods[2]
              /\ entry.method.tactic_name # entry.adversarial_methods[1].tactic_name
              /\ other.method = entry.adversarial_methods[1]
              /\ other.scenario_name = entry.scenario_name

----------------------------------------------------------------------------
(* Claims about view and the selections *)

\* C26: view and the selections agree: selectedTechnique is not null while view
\* is technique, pathVisualizationFinding is not null while view is
\* path-visualization, selectedFinding is not null while view is finding; so
\* the render comes to the matrix, its last return, only with view = matrix.
C26_ViewHasItsSelection ==
  /\ view = "technique" => selectedTechnique # Null
  /\ view = "path-visualization" => pathVisualizationFinding # Null
  /\ view = "finding" => selectedFinding # Null
  /\ Screen = "matrix" => view = "matrix"

\* C26 witness: the technique view is on the page with its technique and a
\* finding, and the application has been changed and loaded since the start.
C26_Witness ==
  /\ view = "technique"
  /\ Screen = "technique"
  /\ selectedTechnique # Null
  /\ selectedFindingForTechnique # Null
  /\ Len(loads) >= 2

----------------------------------------------------------------------------
(* Claims about the technique a step node resolves to *)

\* The findings a path visualization is opened for: those of FindingIndex.
shownFindings ==
  UNION {{findingsByTechnique[fullKey][j] : j \in 1..Len(findingsByTechnique[fullKey])} :
         fullKey \in DOMAIN findingsByTechnique}

\* The methods of the finding that are of the step's tactic, in order.
methodsOfStep(finding, step) ==
  SelectSeq(finding.adversarial_methods,
            LAMBDA method : /\ Has(method, "tactic_name")
                            /\ method.tactic_name = step.step_mitre_tactic)

----------------------------------------------------------------------------
(* Claims about the index and the resolution together *)

\* What a click on the cell of the technique stored under tactic and key
\* selects.
cellOf(tactic, key) ==
  [tactic |-> tactic,
   techniqueKey |-> techniqueKeyOf(techniquesByTactic[tactic][key]),
   technique |-> techniquesByTactic[tactic][key]]

\* C29: what getTechniqueSpecificInfo returns for a technique of the matrix and
\* a finding of its list, when it is not null, never carries a method whose
\* can_achieve is not true, not even when that method has the tactic and lists
\* the key of an achievable method of the same finding.
C29_ResolvedMethodIsAchievable ==
  indexed =>
    \A tactic \in DOMAIN techniquesByTactic :
      \A key \in DOMAIN techniquesByTactic[tactic] :
        \A j \in 1..Len(findingsFor(tactic, key)) :
          LET info == techniqueInfo(cellOf(tactic, key), findingsFor(tactic, key)[j])
          IN info # Null => methodAchievable(info.method)

\* C30: for every key '<tactic>::<techniqueKey>' of FindingIndex and every
\* finding recorded under it, getTechniqueSpecificInfo(finding, techniqueKey,
\* technique.name, tactic) is not null, for the techniques of
\* selected_techniques and for those derived from steps alike.
C30_EveryRecordedFindingResolves ==
  indexed =>
    \A tactic \in DOMAIN techniquesByTactic :
      \A key \in DOMAIN techniquesByTactic[tactic] :
        \A j \in 1..Len(findingsFor(tactic, key)) :
          techniqueInfo(cellOf(tactic, key), findingsFor(tactic, key)[j]) # Null
\* C30 witness: an indexed finding is recorded under the key of a technique it
\* lists and under the key derived from a step that names a sub-technique id,
\* and the call for the derived key has returned the steps that name it.
C30_Witness ==
  /\ indexed
  /\ MapHas(findingsByTechnique, "Initial Access::T1566")
  /\ MapHas(findingsByTechnique, "Execution::attack-pattern--t1059-001")
  /\ LET info == techniqueInfo(cellOf("Execution", "attack-pattern--t1059-001"),
                               findingsFor("Execution", "attack-pattern--t1059-001")[1])
     IN /\ info # Null
        /\ info.technique.stix_id = "attack-pattern--t1059-001"
        /\ \E i \in 1..Len(info.methodSteps) : info.methodSteps[i] = StepShell

====
